---- MODULE Spec2Model ----
(***************************************************************************)
(* Model of the measurement and scoring core of netoptimizer-pro:          *)
(*   modules/dns_analyzer.py, modules/cdn_tester.py, modules/global_ping.py *)
(*   modules/port_scanner.py, modules/protocol_benchmark.py,               *)
(*   modules/recommendation_engine.py.                                     *)
(*                                                                         *)
(* Numbers.  Every latency the probes return is round(x, 2), and every     *)
(* success rate is round(x, 2): both are held as integers counting         *)
(* hundredths (Scale = 100), so 10 ms is 1000 and 33.33 % is 3333.         *)
(***************************************************************************)
EXTENDS Integers, Sequences, FiniteSets, TLC

VARIABLES
    \* ---- scoring functions applied to free inputs
    sc_kind, sc_avg_time, sc_success_rate, sc_result, sc_pc,
    \* ---- one benchmark run (DNSAnalyzer.benchmark, CDNTester.benchmark,
    \*      GlobalPingTester.test_region)
    b_kind,          \* which runner: "dns", "cdn" or "ping"
    iterations,      \* the iterations argument
    domains,         \* len(domains), the number of test domains (dns only)
    custom_servers,  \* len(custom_servers) (dns only)
    results,         \* the results dict, in insertion order
    tests,           \* the "tests" list of the target aggregated last, as
                     \* the bag of its probe results (result -> how often)
    report,          \* the returned report
    b_pc,
    \* ---- single calls of the probe primitives
    p_log,           \* the calls made so far: probe, what the network did
                     \* (mode), and the value the probe returned
    \* ---- one call of PortScanner.scan_ports
    ps_ports,        \* the ports argument (<<>> for None or an empty list)
    ps_scan_type,    \* the scan_type argument
    ps_task,         \* per task of the gather: "waiting" for the semaphore,
                     \* "in_flight" inside scan_port, or "done"
    ps_value,        \* the semaphore's counter
    ps_outcome,      \* per task, what its connection attempt met
    ps_scan_results, \* per task, the record scan_port returned
    ps_report,       \* the returned dict
    ps_pc,
    \* ---- one call of RecommendationEngine.analyze
    network_data, dns_data, cdn_data, protocol_data, port_data, ping_data,
                     \* the six arguments
    recommendations, \* self.recommendations of the shared engine object
    r_stale,         \* what self.recommendations held when analyze was called
    r_output,        \* the returned dict
    r_pc,
    architecture,    \* what ServiceArchitect.design returned for the same
                     \* network, DNS and ping reports, or the exception
    a_pc,
    \* ---- NetworkScanner.full_scan and what is advised on its report
    n_runs,          \* per latency endpoint, what its connection attempts met
    n_download,      \* measure_download_speed()
    n_upload,        \* measure_upload_speed()
    n_mtu,           \* detect_mtu()
    n_overall,       \* overall_latency as it is scored
    n_report,        \* the dict full_scan returns
    n_dns, n_ping,   \* the DNS and ping reports handed to design
    n_analysis,      \* analyze(network_data=report)
    n_design,        \* design(network_data=report, dns_data, ping_data)
    n_pc,
    \* ---- the scan orchestrator of main.py
    scan_status,     \* the global scan_status
    main_scan_results, \* the global scan_results of main.py
    requests,        \* per POST /api/network/scan, its ScanRequest body
    responses,       \* per POST, the response (status 0: not yet arrived)
    tasks,           \* per POST, its background task execute_full_scan:
                     \* position, modules_to_run, loop index, local results
    arrived_during,  \* per POST, whether on arrival an accepted scan had not
                     \* finished
    last_finished,   \* the task that left execute_full_scan last (0: none)
    got_results,     \* the last response of GET /api/scan/results
    got_after,       \* last_finished when that response was made
    \* ---- one run of connection attempts, measured by both jitter formulas
    j_samples,       \* per attempt in temporal order: the connect time, Inf
                     \* for a timeout, Skipped for another failure
    j_latency,       \* what NetworkScanner.measure_latency returns for them
    j_region,        \* what GlobalPingTester.test_region returns for them
    j_pc

sc_vars == <<sc_kind, sc_avg_time, sc_success_rate, sc_result, sc_pc>>

b_vars == <<b_kind, iterations, domains, custom_servers, results, tests, report, b_pc>>

p_vars == <<p_log>>

ps_vars == <<ps_ports, ps_scan_type, ps_task, ps_value, ps_outcome,
             ps_scan_results, ps_report, ps_pc>>

r_vars == <<network_data, dns_data, cdn_data, protocol_data, port_data,
            ping_data, recommendations, r_stale, r_output, r_pc, architecture,
            a_pc>>

n_vars == <<n_runs, n_download, n_upload, n_mtu, n_overall, n_report, n_dns,
            n_ping, n_analysis, n_design, n_pc>>

s_vars == <<scan_status, main_scan_results, requests, responses, tasks,
            arrived_during, last_finished, got_results, got_after>>

j_vars == <<j_samples, j_latency, j_region, j_pc>>

vars == <<sc_vars, b_vars, p_vars, ps_vars, r_vars, n_vars, s_vars, j_vars>>

(***************************************************************************)
(* Units and rounding                                                      *)
(***************************************************************************)

\* round(x, 2): two decimals are kept, so one unit of the model is 1/100.
Scale == 100

\* Python's None.
NoneVal == "None"

Max2(a, b) == IF a >= b THEN a ELSE b
Min2(a, b) == IF a <= b THEN a ELSE b

\* The integers round(n / d) can return for n >= 0, d > 0.  Away from a tie
\* it is the nearest integer.  At an exact tie the float that stands for
\* n / d lies on either side of it (round(10.005, 2) is 10.01 while
\* round((10.0 + 10.01) / 2, 2) is 10.0), so both neighbours are possible.
RoundChoices(n, d) ==
    LET q == n \div d
        r == n % d
    IN  IF 2 * r < d THEN {q}
        ELSE IF 2 * r > d THEN {q + 1}
        ELSE {q, q + 1}

\* round(x) of an exact rational n / d to the nearest integer (ties to even).
RoundNearest(n, d) ==
    LET q == n \div d
        r == n % d
    IN  IF 2 * r < d THEN q
        ELSE IF 2 * r > d THEN q + 1
        ELSE IF q % 2 = 0 THEN q ELSE q + 1

(***************************************************************************)
(* Scoring: DNSAnalyzer._calculate_reliability, CDNTester._calculate_score *)
(***************************************************************************)

\* Mutant: the steps for 25 ms and 50 ms exchanged.
dns_time_score_dip(avg_time) ==
    IF avg_time <= 10 * Scale THEN 100
    ELSE IF avg_time <= 25 * Scale THEN 75
    ELSE IF avg_time <= 50 * Scale THEN 90
    ELSE IF avg_time <= 100 * Scale THEN 60
    ELSE IF avg_time <= 200 * Scale THEN 40
    ELSE 20

\* The step function of dns_analyzer.py lines 195-206 (avg_time in 1/100 ms).
dns_time_score(avg_time) ==
    IF avg_time <= 10 * Scale THEN 100
    ELSE IF avg_time <= 25 * Scale THEN 90
    ELSE IF avg_time <= 50 * Scale THEN 75
    ELSE IF avg_time <= 100 * Scale THEN 60
    ELSE IF avg_time <= 200 * Scale THEN 40
    ELSE 20

\* The step function of cdn_tester.py lines 205-216.
cdn_time_score(avg_time) ==
    IF avg_time <= 50 * Scale THEN 100
    ELSE IF avg_time <= 100 * Scale THEN 90
    ELSE IF avg_time <= 200 * Scale THEN 75
    ELSE IF avg_time <= 500 * Scale THEN 50
    ELSE IF avg_time <= 1000 * Scale THEN 30
    ELSE 10

\* int(success_rate * 0.6 + time_score * 0.4): int() drops the fraction.
\* With success_rate = s / Scale the sum is (6 s + 4 Scale time_score) /
\* (10 Scale).  (The float sum truncates to the same integer as the exact
\* one for every s in 0..10000 and every step value.)
weighted_int(success_rate, time_score) ==
    (6 * success_rate + 4 * Scale * time_score) \div (10 * Scale)

\* Mutant: the success_rate == 0 short-circuit left out.
calculate_reliability_no_guard(avg_time, success_rate) ==
    weighted_int(success_rate, dns_time_score(avg_time))

calculate_reliability(avg_time, success_rate) ==
    IF success_rate = 0 THEN 0
    ELSE weighted_int(success_rate, dns_time_score(avg_time))

calculate_score(avg_time, success_rate) ==
    IF success_rate = 0 THEN 0
    ELSE weighted_int(success_rate, cdn_time_score(avg_time))

\* The score of one runner kind.
score_of(kind, avg_time, success_rate) ==
    IF kind = "dns" THEN calculate_reliability(avg_time, success_rate)
    ELSE calculate_score(avg_time, success_rate)

time_score_of(kind, avg_time) ==
    IF kind = "dns" THEN dns_time_score(avg_time) ELSE cdn_time_score(avg_time)

(***************************************************************************)
(* Exceptions.  A probe body either completes or raises; what it raises is *)
(* decided by the network, so it is an input of the model.                 *)
(***************************************************************************)

\* The exception classes the probes' I/O raises.  All derive from Exception.
ExcKinds ==
    {"asyncio.TimeoutError", "ConnectionRefusedError", "socket.gaierror",
     "socket.timeout", "OSError", "IndexError", "struct.error",
     "ssl.SSLError", "aiohttp.ClientConnectorError", "aiohttp.ClientError"}

\* str(e).  asyncio.TimeoutError is raised without arguments (by wait_for and
\* by aiohttp's total-timeout timer), so its text is the empty string.
StrOf(exc) ==
    CASE exc = "asyncio.TimeoutError" -> ""
      [] exc = "ConnectionRefusedError" -> "[Errno 111] Connection refused"
      [] exc = "socket.gaierror" -> "[Errno -2] Name or service not known"
      [] exc = "socket.timeout" -> "timed out"
      [] exc = "OSError" -> "[Errno 101] Network is unreachable"
      [] exc = "IndexError" -> "index out of range"
      [] exc = "struct.error" -> "unpack requires a buffer of 2 bytes"
      [] exc = "ssl.SSLError" -> "[SSL] handshake failure"
      [] exc = "aiohttp.ClientConnectorError" -> "Cannot connect to host"
      [] OTHER -> "Server disconnected"

\* "except Exception" catches every class of ExcKinds.
IsException(exc) == exc \in ExcKinds

\* An exception that no except clause of the probe caught leaves the probe.
Raise(exc) == [raised |-> TRUE, exc |-> exc]

\* What the network does to one probe: the exception its I/O raises ("none"
\* when it completes), the elapsed time, the HTTP status and the datagram.
Ev(exc, elapsed, status, response) ==
    [exc |-> exc, elapsed |-> elapsed, status |-> status, response |-> response]

(***************************************************************************)
(* DNSAnalyzer._parse_dns_response (dns_analyzer.py lines 94-117).         *)
(* A response is a sequence of bytes; position pos of the code is element  *)
(* pos + 1 of the sequence.                                                *)
(***************************************************************************)

\* while response[pos] != 0: pos += 1.  The position of the zero byte, or -1
\* when the index runs off the end (IndexError).
RECURSIVE SkipLabels(_, _)
SkipLabels(response, pos) ==
    IF pos >= Len(response) THEN -1
    ELSE IF response[pos + 1] = 0 THEN pos
    ELSE SkipLabels(response, pos + 1)

\* struct.unpack(">H", response[pos:pos + 2])[0]
Unpack16(response, pos) == 256 * response[pos + 1] + response[pos + 2]

\* The loop "while pos < len(response)" of lines 100-116.
RECURSIVE WalkRecords(_, _)
WalkRecords(response, pos) ==
    IF pos >= Len(response) THEN [exc |-> "none", ip |-> <<>>]
    ELSE
      LET afterName ==
            IF response[pos + 1] >= 192 THEN pos + 2
            ELSE LET z == SkipLabels(response, pos)
                 IN  IF z = -1 THEN -1 ELSE z + 1
      IN  IF afterName = -1 THEN [exc |-> "IndexError", ip |-> <<>>]
          ELSE IF afterName + 2 > Len(response)
            THEN [exc |-> "struct.error", ip |-> <<>>]
          ELSE
            LET rtype == Unpack16(response, afterName)
                lenPos == afterName + 8
            IN  IF lenPos + 2 > Len(response)
                  THEN [exc |-> "struct.error", ip |-> <<>>]
                ELSE
                  LET rdlength == Unpack16(response, lenPos)
                      data == lenPos + 2
                  IN  IF rtype = 1 /\ rdlength = 4
                        THEN [exc |-> "none",
                              ip |-> SubSeq(response, data + 1,
                                            Min2(data + 4, Len(response)))]
                      ELSE WalkRecords(response, data + rdlength)

parse_dns_response(response) ==
    LET z == SkipLabels(response, 12)
    IN  IF z = -1 THEN [exc |-> "IndexError", ip |-> <<>>]
        ELSE WalkRecords(response, z + 5)

\* Datagrams: a 12-byte header, the question "a" IN A, then the answers.
Header12 == <<0, 7, 129, 128, 0, 1, 0, 1, 0, 0, 0, 0>>
Question == <<1, 97, 0, 0, 1, 0, 1>>
\* name = pointer to offset 12, type A, class IN, ttl 60, rdlength 4, 1.2.3.4
AnswerA == <<192, 12, 0, 1, 0, 1, 0, 0, 0, 60, 0, 4, 1, 2, 3, 4>>
\* a CNAME record announcing 10 bytes of data of which 2 arrived
AnswerCut == <<192, 12, 0, 5, 0, 1, 0, 0, 0, 60, 0, 10, 1, 98>>

RespA == Header12 \o Question \o AnswerA
RespNoAnswer == Header12 \o Question
RespCutData == Header12 \o Question \o AnswerCut
RespCutHeader == <<0, 7, 129, 128, 0>>
RespCutRecord == Header12 \o Question \o <<192, 12, 0>>
\* the owner name written out: "a", type A, 1.2.3.4
RespLabelsA ==
    Header12 \o Question
    \o <<1, 97, 0, 0, 1, 0, 1, 0, 0, 0, 60, 0, 4, 1, 2, 3, 4>>
\* a CNAME record (4 bytes of data: "b" and a pointer), then the A record
\* 5.6.7.8 owned by a pointer to that data
RespCnameA ==
    Header12 \o Question
    \o <<192, 12, 0, 5, 0, 1, 0, 0, 0, 60, 0, 4, 1, 98, 192, 12>>
    \o <<192, 31, 0, 1, 0, 1, 0, 0, 0, 60, 0, 4, 5, 6, 7, 8>>
\* the owner name is the label "b" followed by a pointer; type A, 1.2.3.4
RespLabelPointerA ==
    Header12 \o Question
    \o <<1, 98, 192, 12, 0, 1, 0, 1, 0, 0, 0, 60, 0, 4, 1, 2, 3, 4>>

(***************************************************************************)
(* Probe primitives of the three benchmark runners                         *)
(***************************************************************************)

\* test_dns_server(..., timeout: float = 5.0), in seconds
dns_timeout == 5
\* CDNTester.timeout = 10.0
cdn_timeout == 10
\* GlobalPingTester.timeout = 10.0
ping_timeout == 10

\* DNSAnalyzer._resolve_dns: every exception of the socket calls and of the
\* parser is caught and returned as {"success": False, "error": str(e)}.
resolve_dns(ev) ==
    IF ev.exc # "none"
      THEN IF IsException(ev.exc)
             THEN [raised |-> FALSE, success |-> FALSE, ip |-> <<>>,
                   error |-> StrOf(ev.exc)]
             ELSE Raise(ev.exc)
    ELSE LET p == parse_dns_response(ev.response)
         IN  IF p.exc # "none"
               THEN [raised |-> FALSE, success |-> FALSE, ip |-> <<>>,
                     error |-> StrOf(p.exc)]
               ELSE [raised |-> FALSE, success |-> TRUE, ip |-> p.ip,
                     error |-> NoneVal]

\* DNSAnalyzer.test_dns_server.  ev.exc = "asyncio.TimeoutError" is wait_for
\* giving up after `timeout`; any other event is what _resolve_dns met.
test_dns_server(ev) ==
    IF ev.exc = "asyncio.TimeoutError"
      THEN [raised |-> FALSE, success |-> FALSE,
            response_time_ms |-> dns_timeout * 1000 * Scale,
            resolved_ip |-> <<>>, error |-> "Timeout"]
    ELSE LET result == resolve_dns(ev)
         IN  IF result.raised
               THEN IF IsException(result.exc)
                      THEN [raised |-> FALSE, success |-> FALSE,
                            response_time_ms |-> 0, resolved_ip |-> <<>>,
                            error |-> StrOf(result.exc)]
                      ELSE result
               ELSE [raised |-> FALSE, success |-> result.success,
                     response_time_ms |-> ev.elapsed,
                     resolved_ip |-> result.ip, error |-> result.error]

\* CDNTester.test_cdn
test_cdn(ev) ==
    IF ev.exc = "none"
      THEN [raised |-> FALSE, success |-> TRUE, status_code |-> ev.status,
            response_time_ms |-> ev.elapsed, error |-> NoneVal]
    ELSE IF ev.exc = "asyncio.TimeoutError"
      THEN [raised |-> FALSE, success |-> FALSE, status_code |-> 0,
            response_time_ms |-> cdn_timeout * 1000 * Scale, error |-> "Timeout"]
    ELSE IF IsException(ev.exc)
      THEN [raised |-> FALSE, success |-> FALSE, status_code |-> 0,
            response_time_ms |-> 0, error |-> StrOf(ev.exc)]
    ELSE Raise(ev.exc)

\* GlobalPingTester.ping_host.  socket.gaierror from gethostbyname is caught
\* by the inner try (ip = host); ev.exc is what open_connection then raises.
ping_host(ev) ==
    IF ev.exc = "none"
      THEN [raised |-> FALSE, success |-> TRUE, latency_ms |-> ev.elapsed,
            error |-> NoneVal]
    ELSE IF ev.exc = "asyncio.TimeoutError"
      THEN [raised |-> FALSE, success |-> FALSE,
            latency_ms |-> ping_timeout * 1000 * Scale, error |-> "Timeout"]
    ELSE IF IsException(ev.exc)
      THEN [raised |-> FALSE, success |-> FALSE, latency_ms |-> 0,
            error |-> StrOf(ev.exc)]
    ELSE Raise(ev.exc)

(***************************************************************************)
(* PortScanner: the port tables and scan_port (port_scanner.py 16-120)     *)
(***************************************************************************)

Common(service, category) == [service |-> service, category |-> category]

Vpn(service, protocol) ==
    [service |-> service, protocol |-> protocol, category |-> "vpn"]

COMMON_PORTS ==
    20 :> Common("FTP Data", "file_transfer")
    @@ 21 :> Common("FTP Control", "file_transfer")
    @@ 22 :> Common("SSH", "remote_access")
    @@ 23 :> Common("Telnet", "remote_access")
    @@ 25 :> Common("SMTP", "email")
    @@ 53 :> Common("DNS", "network")
    @@ 80 :> Common("HTTP", "web")
    @@ 110 :> Common("POP3", "email")
    @@ 143 :> Common("IMAP", "email")
    @@ 443 :> Common("HTTPS", "web")
    @@ 445 :> Common("SMB", "file_transfer")
    @@ 465 :> Common("SMTPS", "email")
    @@ 587 :> Common("SMTP Submission", "email")
    @@ 993 :> Common("IMAPS", "email")
    @@ 995 :> Common("POP3S", "email")
    @@ 1433 :> Common("MSSQL", "database")
    @@ 3306 :> Common("MySQL", "database")
    @@ 3389 :> Common("RDP", "remote_access")
    @@ 5432 :> Common("PostgreSQL", "database")
    @@ 5900 :> Common("VNC", "remote_access")
    @@ 6379 :> Common("Redis", "database")
    @@ 8080 :> Common("HTTP Proxy", "web")
    @@ 8443 :> Common("HTTPS Alt", "web")
    @@ 27017 :> Common("MongoDB", "database")

VPN_PORTS ==
    500 :> Vpn("IKE", "IPSec")
    @@ 1194 :> Vpn("OpenVPN", "OpenVPN")
    @@ 1701 :> Vpn("L2TP", "L2TP")
    @@ 1723 :> Vpn("PPTP", "PPTP")
    @@ 4500 :> Vpn("IPSec NAT-T", "IPSec")
    @@ 51820 :> Vpn("WireGuard", "WireGuard")
    @@ 443 :> Vpn("HTTPS/SSL VPN", "SSL VPN")
    @@ 8443 :> Vpn("AnyConnect", "Cisco AnyConnect")
    @@ 10443 :> Vpn("V2Ray", "V2Ray")
    @@ 2083 :> Vpn("V2Ray/Xray", "V2Ray")
    @@ 2087 :> Vpn("Trojan", "Trojan")
    @@ 8388 :> Vpn("Shadowsocks", "Shadowsocks")

\* {**COMMON_PORTS, **VPN_PORTS}: on a key of both the later table wins.
all_ports == VPN_PORTS @@ COMMON_PORTS

\* list(d.keys()): insertion order.  In the merged dict a key of both tables
\* keeps the place COMMON_PORTS gave it.
COMMON_KEYS ==
    <<20, 21, 22, 23, 25, 53, 80, 110, 143, 443, 445, 465, 587, 993, 995,
      1433, 3306, 3389, 5432, 5900, 6379, 8080, 8443, 27017>>

VPN_KEYS ==
    <<500, 1194, 1701, 1723, 4500, 51820, 443, 8443, 10443, 2083, 2087, 8388>>

ALL_KEYS ==
    COMMON_KEYS \o SelectSeq(VPN_KEYS, LAMBDA p : p \notin DOMAIN COMMON_PORTS)

\* self.all_ports.get(port, {}) followed by the three .get calls of the
\* "open" record.
port_info(port) ==
    IF port \in DOMAIN all_ports
      THEN LET info == all_ports[port]
           IN  [service |-> info.service, category |-> info.category,
                protocol |-> IF "protocol" \in DOMAIN info
                               THEN info.protocol ELSE NoneVal]
      ELSE [service |-> "Unknown", category |-> "unknown", protocol |-> NoneVal]

\* Mutant: the timeout clause returns what the refused clause returns.
scan_port_timeout_as_refused(port, ev) ==
    IF ev.exc = "none"
      THEN [raised |-> FALSE, port |-> port, status |-> "open",
            service |-> port_info(port).service,
            category |-> port_info(port).category,
            protocol |-> port_info(port).protocol, error |-> NoneVal]
    ELSE IF ev.exc \in {"asyncio.TimeoutError", "ConnectionRefusedError"}
      THEN [raised |-> FALSE, port |-> port, status |-> "closed",
            service |-> NoneVal, category |-> NoneVal,
            error |-> "Connection refused"]
    ELSE IF IsException(ev.exc)
      THEN [raised |-> FALSE, port |-> port, status |-> "error",
            service |-> NoneVal, category |-> NoneVal, error |-> StrOf(ev.exc)]
    ELSE Raise(ev.exc)

\* PortScanner.scan_port.  ev.exc is what the try body (wait_for around
\* open_connection, close, wait_closed) raises, "none" when it completes.
scan_port(port, ev) ==
    IF ev.exc = "none"
      THEN [raised |-> FALSE, port |-> port, status |-> "open",
            service |-> port_info(port).service,
            category |-> port_info(port).category,
            protocol |-> port_info(port).protocol, error |-> NoneVal]
    ELSE IF ev.exc = "asyncio.TimeoutError"
      THEN [raised |-> FALSE, port |-> port, status |-> "filtered",
            service |-> NoneVal, category |-> NoneVal, error |-> "Timeout"]
    ELSE IF ev.exc = "ConnectionRefusedError"
      THEN [raised |-> FALSE, port |-> port, status |-> "closed",
            service |-> NoneVal, category |-> NoneVal,
            error |-> "Connection refused"]
    ELSE IF IsException(ev.exc)
      THEN [raised |-> FALSE, port |-> port, status |-> "error",
            service |-> NoneVal, category |-> NoneVal, error |-> StrOf(ev.exc)]
    ELSE Raise(ev.exc)

(***************************************************************************)
(* ProtocolBenchmark probes (protocol_benchmark.py lines 59-214)           *)
(***************************************************************************)

\* ProtocolBenchmark.timeout = 10.0
protocol_timeout == 10

\* test_http: one handler, "except Exception", for everything the request
\* raises, the expiry of ClientTimeout(total=...) included.
test_http(ev) ==
    IF ev.exc = "none"
      THEN [raised |-> FALSE, success |-> TRUE, protocol |-> "HTTP/1.1",
            response_time_ms |-> ev.elapsed, status_code |-> ev.status,
            redirected |-> ev.status \in {301, 302, 307, 308},
            error |-> NoneVal]
    ELSE IF IsException(ev.exc)
      THEN [raised |-> FALSE, success |-> FALSE, protocol |-> "HTTP/1.1",
            response_time_ms |-> 0, status_code |-> 0, error |-> StrOf(ev.exc)]
    ELSE Raise(ev.exc)

\* test_https: as test_http, redirects followed.
test_https(ev) ==
    IF ev.exc = "none"
      THEN [raised |-> FALSE, success |-> TRUE, protocol |-> "HTTPS",
            response_time_ms |-> ev.elapsed, status_code |-> ev.status,
            error |-> NoneVal]
    ELSE IF IsException(ev.exc)
      THEN [raised |-> FALSE, success |-> FALSE, protocol |-> "HTTPS",
            response_time_ms |-> 0, status_code |-> 0, error |-> StrOf(ev.exc)]
    ELSE Raise(ev.exc)

\* What ssock.version() and ssock.cipher()[0] give for a requested version.
NegotiatedVersion(tls_version) ==
    IF tls_version = "TLS 1.2" THEN "TLSv1.2" ELSE "TLSv1.3"

NegotiatedCipher(tls_version) ==
    IF tls_version = "TLS 1.2" THEN "ECDHE-RSA-AES128-GCM-SHA256"
    ELSE "TLS_AES_256_GCM_SHA384"

\* f"SSL Error: {str(e)}"
SslErrorText(exc) ==
    IF exc = "ssl.SSLError" THEN "SSL Error: [SSL] handshake failure"
    ELSE "SSL Error: " \o StrOf(exc)

\* _sync_tls_test: blocking connect (timeout=5) and handshake.
sync_tls_test(tls_version, ev) ==
    IF ev.exc = "none"
      THEN [raised |-> FALSE, success |-> TRUE,
            tls_version |-> NegotiatedVersion(tls_version),
            cipher |-> NegotiatedCipher(tls_version), error |-> NoneVal]
    ELSE IF ev.exc = "ssl.SSLError"
      THEN [raised |-> FALSE, success |-> FALSE, tls_version |-> tls_version,
            cipher |-> NoneVal, error |-> SslErrorText(ev.exc)]
    ELSE IF IsException(ev.exc)
      THEN [raised |-> FALSE, success |-> FALSE, tls_version |-> tls_version,
            cipher |-> NoneVal, error |-> StrOf(ev.exc)]
    ELSE Raise(ev.exc)

\* test_tls_version: runs _sync_tls_test in the executor and adds the
\* elapsed time to a successful result.
test_tls_version(tls_version, ev) ==
    LET result == sync_tls_test(tls_version, ev)
    IN  IF result.raised
          THEN IF IsException(result.exc)
                 THEN [raised |-> FALSE, success |-> FALSE,
                       tls_version |-> tls_version, response_time_ms |-> 0,
                       cipher |-> NoneVal, error |-> StrOf(result.exc)]
                 ELSE result
        ELSE IF result.success
          THEN [raised |-> FALSE, success |-> TRUE,
                tls_version |-> result.tls_version, cipher |-> result.cipher,
                error |-> result.error, response_time_ms |-> ev.elapsed]
        ELSE result

\* test_tcp_connection
test_tcp_connection(port, ev) ==
    IF ev.exc = "none"
      THEN [raised |-> FALSE, success |-> TRUE, port |-> port,
            connection_time_ms |-> ev.elapsed, error |-> NoneVal]
    ELSE IF ev.exc = "asyncio.TimeoutError"
      THEN [raised |-> FALSE, success |-> FALSE, port |-> port,
            connection_time_ms |-> protocol_timeout * 1000 * Scale,
            error |-> "Timeout"]
    ELSE IF IsException(ev.exc)
      THEN [raised |-> FALSE, success |-> FALSE, port |-> port,
            connection_time_ms |-> 0, error |-> StrOf(ev.exc)]
    ELSE Raise(ev.exc)

(***************************************************************************)
(* Benchmark runners: DNSAnalyzer.benchmark (lines 119-189),               *)
(* CDNTester.benchmark (138-198), GlobalPingTester.test_region (185-230)   *)
(***************************************************************************)

\* float("inf"), the initial min_time: above every latency of the model.
Inf == 1000000000

\* The catalogs, cut to their first entries (iteration order kept).
DNS_SERVERS == <<"Cloudflare", "Google">>
CDN_PROVIDERS == <<"Cloudflare", "Fastly">>
GLOBAL_ENDPOINTS == <<"US East (Virginia)">>

\* f"Custom_{i + 1}" for the i-th custom server (i from 0)
CustomName(i) == <<"Custom_1", "Custom_2", "Custom_3">>[i]

\* servers_to_test: the catalog, then the custom servers, in that order.
servers_to_test(n_custom) ==
    DNS_SERVERS \o [i \in 1 .. n_custom |-> CustomName(i)]

targets_of(kind, n_custom) ==
    IF kind = "dns" THEN servers_to_test(n_custom)
    ELSE IF kind = "cdn" THEN CDN_PROVIDERS
    ELSE GLOBAL_ENDPOINTS

\* total_tests = len(domains) * iterations; the other runners probe
\* `iterations` times.
total_tests(kind, n_domains, n_iterations) ==
    IF kind = "dns" THEN n_domains * n_iterations ELSE n_iterations

\* One probe of the runner `kind` under the network event ev.
probe(kind, ev) ==
    IF kind = "dns" THEN test_dns_server(ev)
    ELSE IF kind = "cdn" THEN test_cdn(ev)
    ELSE ping_host(ev)

\* The latency field of a probe result.
time_of(kind, result) ==
    IF kind = "ping" THEN result.latency_ms ELSE result.response_time_ms

\* Whether the runner counts the sample: result["success"], and for the CDN
\* runner also status_code < 400.
counted(kind, result) ==
    IF kind = "cdn" THEN result.success /\ result.status_code < 400
    ELSE result.success

\* The accumulators before the first sample.  all_times (latencies for the
\* ping runner) is held as its length and its sum.
acc0 ==
    [successful |-> 0, all_times |-> [len |-> 0, sum |-> 0],
     min_time |-> Inf, max_time |-> 0]

\* Mutant: the latency of every sample, failed ones too, enters the aggregates.
accumulate_every_sample(kind, acc, result) ==
    LET time_ms == time_of(kind, result)
    IN  [successful |-> acc.successful + (IF counted(kind, result) THEN 1 ELSE 0),
         all_times |-> [len |-> acc.all_times.len + 1,
                        sum |-> acc.all_times.sum + time_ms],
         min_time |-> Min2(acc.min_time, time_ms),
         max_time |-> Max2(acc.max_time, time_ms)]

\* The body of the sampling loop for one probe result.
accumulate(kind, acc, result) ==
    IF counted(kind, result)
      THEN LET time_ms == time_of(kind, result)
           IN  [successful |-> acc.successful + 1,
                all_times |-> [len |-> acc.all_times.len + 1,
                               sum |-> acc.all_times.sum + time_ms],
                min_time |-> Min2(acc.min_time, time_ms),
                max_time |-> Max2(acc.max_time, time_ms)]
    ELSE acc

\* The sampling loop over the probe results r[1..n], in order.
RECURSIVE run_samples(_, _, _)
run_samples(kind, r, n) ==
    IF n = 0 THEN acc0
    ELSE accumulate(kind, run_samples(kind, r, n - 1), r[n])

\* round((successful / total) * 100, 2)
success_rate_of(successful, total) ==
    RoundChoices(successful * 100 * Scale, total)

\* Mutant: the else branch that resets min_time to 0 left out.
target_results_min_kept(kind, name, acc, total) ==
    { [name |-> name,
       avg_response_time |-> avg,
       min_time |-> acc.min_time,
       max_time |-> acc.max_time,
       success_rate |-> rate,
       score |-> score_of(kind, avg, rate)] :
        avg \in (IF acc.all_times.len > 0
                   THEN RoundChoices(acc.all_times.sum, acc.all_times.len)
                   ELSE {0}),
        rate \in success_rate_of(acc.successful, total) }

\* The record of one DNS server or CDN provider after its loop: the
\* aggregates of lines 159-171 (dns) and 169-181 (cdn).  A set, because a
\* rounding tie can fall either way.
target_results(kind, name, acc, total) ==
    { [name |-> name,
       avg_response_time |-> avg,
       min_time |-> IF acc.all_times.len > 0 THEN acc.min_time ELSE 0,
       max_time |-> acc.max_time,
       success_rate |-> rate,
       score |-> score_of(kind, avg, rate)] :
        avg \in (IF acc.all_times.len > 0
                   THEN RoundChoices(acc.all_times.sum, acc.all_times.len)
                   ELSE {0}),
        rate \in success_rate_of(acc.successful, total) }

\* The record test_region returns (lines 209-230).
region_results(name, acc, total) ==
    { [name |-> name,
       success |-> acc.all_times.len > 0,
       avg_latency_ms |-> avg,
       min_latency_ms |-> IF acc.all_times.len > 0 THEN acc.min_time ELSE 0,
       max_latency_ms |-> IF acc.all_times.len > 0 THEN acc.max_time ELSE 0,
       jitter_ms |-> IF acc.all_times.len > 0
                       THEN acc.max_time - acc.min_time ELSE 0,
       success_rate |-> rate] :
        avg \in (IF acc.all_times.len > 0
                   THEN RoundChoices(acc.all_times.sum, acc.all_times.len)
                   ELSE {0}),
        rate \in success_rate_of(acc.all_times.len, total) }

\* Mutant: a record goes in front of the records of equal score.
insert_desc_front(sorted, rec) ==
    LET k == Cardinality({i \in 1 .. Len(sorted) : sorted[i].score > rec.score})
    IN  SubSeq(sorted, 1, k) \o <<rec>> \o SubSeq(sorted, k + 1, Len(sorted))

\* sorted(results.items(), key=score, reverse=True): the sort is stable, and
\* with reverse=True equal keys keep their original order.  Inserting each
\* record behind the records whose score is at least its own does that.
insert_desc(sorted, rec) ==
    LET k == Cardinality({i \in 1 .. Len(sorted) : sorted[i].score >= rec.score})
    IN  SubSeq(sorted, 1, k) \o <<rec>> \o SubSeq(sorted, k + 1, Len(sorted))

RECURSIVE sort_desc(_, _)
sort_desc(recs, n) ==
    IF n = 0 THEN <<>>
    ELSE insert_desc(sort_desc(recs, n - 1), recs[n])

\* The report of lines 180-189 (dns) and 185-198 (cdn).  best is the
\* best_server / best_cdn entry: a sequence of one record, empty for None.
make_report(recs) ==
    LET sorted_results == sort_desc(recs, Len(recs))
    IN  [servers |-> sorted_results,
         best |-> IF Len(sorted_results) > 0 THEN <<sorted_results[1]>> ELSE <<>>,
         total_tested |-> Len(sorted_results)]

(***************************************************************************)
(* Specification SpecBench: one run of a benchmark runner                  *)
(***************************************************************************)

\* The most samples (test domains x iterations) taken of one target.
MaxSamples == 3

\* Latencies a successful probe measures: 10, 20 and 30 ms.
Times == {10 * Scale, 20 * Scale, 30 * Scale}

\* What the network can do to one probe of a runner: answer in time (the CDN
\* also with a status of 400 or more), let the timeout expire, or refuse.
BenchEvents(kind) ==
    IF kind = "dns"
      THEN {Ev("none", t, 0, RespA) : t \in Times}
           \cup {Ev("asyncio.TimeoutError", 0, 0, <<>>)}
    ELSE IF kind = "cdn"
      THEN {Ev("none", t, 200, <<>>) : t \in Times}
           \cup {Ev("none", 5 * Scale, 404, <<>>),
                 Ev("asyncio.TimeoutError", 0, 0, <<>>),
                 Ev("aiohttp.ClientConnectorError", 0, 0, <<>>)}
    ELSE {Ev("none", t, 0, <<>>) : t \in Times}
         \cup {Ev("asyncio.TimeoutError", 0, 0, <<>>),
               Ev("ConnectionRefusedError", 0, 0, <<>>)}

\* The bag of the elements of a list.
bag_of(r) ==
    [x \in {r[i] : i \in DOMAIN r} |-> Cardinality({i \in DOMAIN r : r[i] = x})]

NoReport == [servers |-> <<>>, best |-> <<>>, total_tested |-> 0]

BenchIdle ==
    /\ b_kind = "dns"
    /\ iterations = 1
    /\ domains = 1
    /\ custom_servers = 0
    /\ results = <<>>
    /\ tests = <<>>
    /\ report = NoReport
    /\ b_pc = "idle"

BenchInit ==
    /\ b_kind \in {"dns", "cdn", "ping"}
    /\ iterations \in 1 .. MaxSamples
    /\ domains \in {1, 2}
    /\ custom_servers \in {0, 1}
    /\ b_kind # "dns" => (domains = 1 /\ custom_servers = 0)
    /\ total_tests(b_kind, domains, iterations) <= MaxSamples
    /\ results = <<>>
    /\ tests = <<>>
    /\ report = NoReport
    /\ b_pc = "run"

b_targets == targets_of(b_kind, custom_servers)
b_total == total_tests(b_kind, domains, iterations)

\* The loop body of benchmark for the next DNS server or CDN provider: all
\* its probes, the aggregates and the score.
BenchmarkTarget ==
    /\ b_pc = "run"
    /\ b_kind \in {"dns", "cdn"}
    /\ Len(results) < Len(b_targets)
    /\ \E evs \in [1 .. b_total -> BenchEvents(b_kind)] :
         LET r == [i \in 1 .. b_total |-> probe(b_kind, evs[i])]
             acc == run_samples(b_kind, r, b_total)
         IN  /\ tests' = bag_of(r)
             /\ \E rec \in target_results(b_kind, b_targets[Len(results) + 1],
                                          acc, b_total) :
                   results' = Append(results, rec)
    /\ UNCHANGED <<b_kind, iterations, domains, custom_servers, report, b_pc>>

\* After the last target: sort, pick the best, return.
SortAndReturn ==
    /\ b_pc = "run"
    /\ b_kind \in {"dns", "cdn"}
    /\ Len(results) = Len(b_targets)
    /\ report' = make_report(results)
    /\ b_pc' = "done"
    /\ UNCHANGED <<b_kind, iterations, domains, custom_servers, results, tests>>

\* GlobalPingTester.test_region for one region of the catalog.
TestRegion ==
    /\ b_pc = "run"
    /\ b_kind = "ping"
    /\ \E evs \in [1 .. b_total -> BenchEvents(b_kind)] :
         LET r == [i \in 1 .. b_total |-> probe(b_kind, evs[i])]
             acc == run_samples(b_kind, r, b_total)
         IN  /\ tests' = bag_of(r)
             /\ \E rec \in region_results(b_targets[1], acc, b_total) :
                   results' = <<rec>>
    /\ b_pc' = "done"
    /\ UNCHANGED <<b_kind, iterations, domains, custom_servers, report>>

BenchNext ==
    \/ BenchmarkTarget /\ UNCHANGED <<sc_vars, p_vars, ps_vars, r_vars, n_vars, s_vars, j_vars>>
    \/ SortAndReturn /\ UNCHANGED <<sc_vars, p_vars, ps_vars, r_vars, n_vars, s_vars, j_vars>>
    \/ TestRegion /\ UNCHANGED <<sc_vars, p_vars, ps_vars, r_vars, n_vars, s_vars, j_vars>>


(***************************************************************************)
(* Properties of the benchmark runners                                     *)
(***************************************************************************)

\* What the samples of the target aggregated last were, read off `tests`.
Successes == {x \in DOMAIN tests : counted(b_kind, x)}

RECURSIVE ObsCount(_)
ObsCount(S) ==
    IF S = {} THEN 0
    ELSE LET x == CHOOSE y \in S : TRUE IN tests[x] + ObsCount(S \ {x})

RECURSIVE ObsSum(_)
ObsSum(S) ==
    IF S = {} THEN 0
    ELSE LET x == CHOOSE y \in S : TRUE
         IN  tests[x] * time_of(b_kind, x) + ObsSum(S \ {x})

ObsMin(S) == CHOOSE t \in {time_of(b_kind, x) : x \in S} :
                 \A x \in S : t <= time_of(b_kind, x)
ObsMax(S) == CHOOSE t \in {time_of(b_kind, x) : x \in S} :
                 \A x \in S : t >= time_of(b_kind, x)

Abs(n) == IF n < 0 THEN -n ELSE n

Aggregated == b_pc \in {"run", "done"} /\ Len(results) > 0
LastRec == results[Len(results)]
LastAvg == IF b_kind = "ping" THEN LastRec.avg_latency_ms ELSE LastRec.avg_response_time
LastMin == IF b_kind = "ping" THEN LastRec.min_latency_ms ELSE LastRec.min_time
LastMax == IF b_kind = "ping" THEN LastRec.max_latency_ms ELSE LastRec.max_time

\* C1: in every per-target record of the DNS and the CDN benchmark,
\* success_rate is 0 exactly when the score is 0.
C1_ZeroRateIffZeroScore ==
    (b_pc \in {"run", "done"} /\ b_kind \in {"dns", "cdn"}) =>
        \A i \in 1 .. Len(results) :
            (results[i].success_rate = 0) <=> (results[i].score = 0)

\* C1 witness: a finished DNS benchmark holding a server none of whose probes
\* succeeded and a server with successes.
C1_Witness ==
    /\ b_pc = "done" /\ b_kind = "dns"
    /\ \E i, j \in 1 .. Len(results) :
         /\ results[i].success_rate = 0 /\ results[i].score = 0
         /\ results[j].success_rate > 0 /\ results[j].score > 0

\* C3: in the record of every target of the DNS, CDN and region runners: if
\* no probe succeeded, avg, min and max are exactly 0 and success_rate is 0;
\* if one did, avg, min and max are finite, non-negative and min <= avg <= max.
C3_LatencyFieldsSane ==
    Aggregated =>
        /\ (\A x \in DOMAIN tests : ~x.success) =>
              (LastAvg = 0 /\ LastMin = 0 /\ LastMax = 0 /\ LastRec.success_rate = 0)
        /\ (\E x \in DOMAIN tests : x.success) =>
              /\ 0 <= LastMin /\ LastMin <= LastAvg /\ LastAvg <= LastMax
              /\ LastMax < Inf

\* C3 witness: a DNS server all of whose probes timed out, aggregated after a
\* server with successful probes of different latencies.
C3_Witness ==
    /\ Aggregated /\ b_kind = "dns" /\ Len(results) >= 2
    /\ \A x \in DOMAIN tests : x.error = "Timeout"
    /\ LastMin = 0 /\ LastMax = 0 /\ LastAvg = 0
    /\ results[1].min_time > 0 /\ results[1].min_time < results[1].max_time

\* C4: for each DNS server the aggregates are taken over the successful
\* samples only: avg_response_time is their mean, min_time their minimum,
\* max_time their maximum, and success_rate is successful / (test domains x
\* iterations) x 100, each to the two decimals the report keeps (the value
\* differs from the exact quotient by at most half of 0.01); a failed sample,
\* timed out or not, enters none of avg, min and max.
C4_AggregatesOverSuccesses ==
    (Aggregated /\ b_kind = "dns") =>
        /\ 2 * Abs(LastRec.success_rate * (domains * iterations)
                     - ObsCount(Successes) * 100 * Scale) <= domains * iterations
        /\ Successes # {} =>
              /\ 2 * Abs(LastRec.avg_response_time * ObsCount(Successes)
                           - ObsSum(Successes)) <= ObsCount(Successes)
              /\ LastRec.min_time = ObsMin(Successes)
              /\ LastRec.max_time = ObsMax(Successes)
        /\ Successes = {} =>
              /\ LastRec.avg_response_time = 0
              /\ LastRec.min_time = 0
              /\ LastRec.max_time = 0

\* C4 witness: the example, 1 domain and 3 iterations succeeding at 10, 20 and
\* 30 ms, with its aggregates; and a server with a timed-out sample beside
\* successful ones.
C4_Witness ==
    /\ Aggregated /\ b_kind = "dns" /\ domains = 1 /\ iterations = 3
    /\ Len(results) = 2
    /\ \A x \in DOMAIN tests : x.success /\ tests[x] = 1
    /\ {x.response_time_ms : x \in DOMAIN tests} = {10 * Scale, 20 * Scale, 30 * Scale}
    /\ LastRec.avg_response_time = 20 * Scale
    /\ LastRec.min_time = 10 * Scale /\ LastRec.max_time = 30 * Scale
    /\ LastRec.success_rate = 100 * Scale /\ LastRec.score = 96
    /\ results[1].success_rate = 3333 /\ results[1].max_time = 20 * Scale

\* The place of a target in the catalog iteration order.
Place(name) == CHOOSE i \in 1 .. Len(b_targets) : b_targets[i] = name

\* C5: the returned map is ordered by score descending, targets of equal score
\* keep the catalog iteration order (catalog entries, then Custom_1, ...), the
\* best entry is the first entry and has the maximum score, and total_tested
\* is the number of targets tested.
C5_SortedStableBest ==
    (b_pc = "done" /\ b_kind \in {"dns", "cdn"}) =>
        LET m == report.servers
        IN  /\ Len(m) = Len(b_targets)
            /\ {m[i] : i \in 1 .. Len(m)} = {results[i] : i \in 1 .. Len(results)}
            /\ \A i, j \in 1 .. Len(m) :
                  i < j => /\ m[i].score >= m[j].score
                           /\ (m[i].score = m[j].score
                                 => Place(m[i].name) < Place(m[j].name))
            /\ Len(report.best) = 1
            /\ report.best[1] = m[1]
            /\ \A i \in 1 .. Len(m) : report.best[1].score >= m[i].score
            /\ report.total_tested = Len(b_targets)

\* C5 witness: a DNS benchmark with a custom server where the second catalog
\* server scores highest and the first catalog server ties with the custom one.
C5_Witness ==
    /\ b_pc = "done" /\ b_kind = "dns" /\ custom_servers = 1
    /\ results[2].score > results[1].score
    /\ results[1].score = results[3].score
    /\ report.servers = <<results[2], results[1], results[3]>>
    /\ report.servers[3].name = "Custom_1"

(***************************************************************************)
(* Specification SpecProbe: single calls of the eight probe primitives     *)
(***************************************************************************)

\* The most calls kept in the log.
MaxLog == 2

\* A network behaviour: the failure mode it is (or "ok") and the event the
\* probe's I/O sees.
Net(mode, exc, status, response) ==
    [mode |-> mode, ev |-> Ev(exc, 20 * Scale, status, response)]

\* UDP query of a resolver: answered, answered without an A record, the
\* wait_for deadline passing, a name that is no address, an unreachable
\* network, and three datagrams cut short.
DnsNets ==
    {Net("ok", "none", 0, RespA), Net("ok", "none", 0, RespNoAnswer),
     Net("ok", "none", 0, RespLabelsA), Net("ok", "none", 0, RespCnameA),
     Net("ok", "none", 0, RespLabelPointerA),
     Net("timeout", "asyncio.TimeoutError", 0, <<>>),
     Net("resolution", "socket.gaierror", 0, <<>>),
     Net("io", "OSError", 0, <<>>),
     Net("malformed", "none", 0, RespCutData),
     Net("malformed", "none", 0, RespCutHeader),
     Net("malformed", "none", 0, RespCutRecord)}

\* An aiohttp request: answered, the total timeout passing, no connection
\* (refused or unresolved), a response that is not HTTP.
HttpNets ==
    {Net("ok", "none", 200, <<>>), Net("ok", "none", 301, <<>>),
     Net("timeout", "asyncio.TimeoutError", 0, <<>>),
     Net("refused", "aiohttp.ClientConnectorError", 0, <<>>),
     Net("malformed", "aiohttp.ClientError", 0, <<>>)}

\* asyncio.open_connection under wait_for.
TcpNets ==
    {Net("ok", "none", 0, <<>>),
     Net("timeout", "asyncio.TimeoutError", 0, <<>>),
     Net("refused", "ConnectionRefusedError", 0, <<>>),
     Net("resolution", "socket.gaierror", 0, <<>>),
     Net("io", "OSError", 0, <<>>)}

\* socket.create_connection(timeout=5) and the TLS handshake.
TlsNets ==
    {Net("ok", "none", 0, <<>>),
     Net("timeout", "socket.timeout", 0, <<>>),
     Net("refused", "ConnectionRefusedError", 0, <<>>),
     Net("resolution", "socket.gaierror", 0, <<>>),
     Net("malformed", "ssl.SSLError", 0, <<>>)}

Call(name, net, result) ==
    [probe |-> name, mode |-> net.mode, response |-> net.ev.response,
     result |-> result]

ProbeIdle == p_log = <<>>

ProbeInit == p_log = <<>>

CallTestDnsServer ==
    /\ Len(p_log) < MaxLog
    /\ \E net \in DnsNets :
         p_log' = Append(p_log, Call("test_dns_server", net, test_dns_server(net.ev)))

CallTestCdn ==
    /\ Len(p_log) < MaxLog
    /\ \E net \in HttpNets :
         p_log' = Append(p_log, Call("test_cdn", net, test_cdn(net.ev)))

CallPingHost ==
    /\ Len(p_log) < MaxLog
    /\ \E net \in TcpNets :
         p_log' = Append(p_log, Call("ping_host", net, ping_host(net.ev)))

CallScanPort ==
    /\ Len(p_log) < MaxLog
    /\ \E net \in TcpNets, port \in {443, 9999} :
         p_log' = Append(p_log, Call("scan_port", net, scan_port(port, net.ev)))

CallTestHttp ==
    /\ Len(p_log) < MaxLog
    /\ \E net \in HttpNets :
         p_log' = Append(p_log, Call("test_http", net, test_http(net.ev)))

CallTestHttps ==
    /\ Len(p_log) < MaxLog
    /\ \E net \in HttpNets :
         p_log' = Append(p_log, Call("test_https", net, test_https(net.ev)))

CallTestTlsVersion ==
    /\ Len(p_log) < MaxLog
    /\ \E net \in TlsNets, v \in {"TLS 1.2", "TLS 1.3"} :
         p_log' = Append(p_log, Call("test_tls_version", net,
                                     test_tls_version(v, net.ev)))

CallTestTcpConnection ==
    /\ Len(p_log) < MaxLog
    /\ \E net \in TcpNets :
         p_log' = Append(p_log, Call("test_tcp_connection", net,
                                     test_tcp_connection(443, net.ev)))

ProbeNext ==
    \/ CallTestDnsServer /\ UNCHANGED <<sc_vars, b_vars, ps_vars, r_vars, n_vars, s_vars, j_vars>>
    \/ CallTestCdn /\ UNCHANGED <<sc_vars, b_vars, ps_vars, r_vars, n_vars, s_vars, j_vars>>
    \/ CallPingHost /\ UNCHANGED <<sc_vars, b_vars, ps_vars, r_vars, n_vars, s_vars, j_vars>>
    \/ CallScanPort /\ UNCHANGED <<sc_vars, b_vars, ps_vars, r_vars, n_vars, s_vars, j_vars>>
    \/ CallTestHttp /\ UNCHANGED <<sc_vars, b_vars, ps_vars, r_vars, n_vars, s_vars, j_vars>>
    \/ CallTestHttps /\ UNCHANGED <<sc_vars, b_vars, ps_vars, r_vars, n_vars, s_vars, j_vars>>
    \/ CallTestTlsVersion /\ UNCHANGED <<sc_vars, b_vars, ps_vars, r_vars, n_vars, s_vars, j_vars>>
    \/ CallTestTcpConnection /\ UNCHANGED <<sc_vars, b_vars, ps_vars, r_vars, n_vars, s_vars, j_vars>>

(***************************************************************************)
(* Properties of the probe primitives                                      *)
(***************************************************************************)

\* The failure marker of a returned record: success false, or for scan_port
\* a status other than "open".
FailureMarked(call) ==
    IF call.probe = "scan_port" THEN call.result.status # "open"
    ELSE call.result.success = FALSE

\* No call of the log let an exception out.
NoProbeRaises == \A i \in DOMAIN p_log : ~p_log[i].result.raised

\* C6 (as claimed): none of the eight probe primitives raises to its caller,
\* and for every failure mode (timeout, refused, resolution failure,
\* malformed response, I/O error) the returned record carries the failure
\* marker together with an error reason.
C6_FailureReturnsReason ==
    \A i \in DOMAIN p_log :
        /\ ~p_log[i].result.raised
        /\ p_log[i].mode # "ok" =>
             /\ FailureMarked(p_log[i])
             /\ p_log[i].result.error \notin {NoneVal, ""}

\* The probes the timeout contract names: DNS, CDN, TCP/ping, port, HTTP(S).
TimeoutProbes ==
    {"test_dns_server", "test_cdn", "ping_host", "test_tcp_connection",
     "scan_port", "test_http", "test_https"}

\* C7 (as claimed): in each of these probes a timeout is reported as
\* "Timeout", which no refused connection and no generic I/O failure is
\* reported as.
C7_TimeoutReportedAsTimeout ==
    \A i \in DOMAIN p_log :
        (p_log[i].probe \in TimeoutProbes /\ ~p_log[i].result.raised) =>
            /\ p_log[i].mode = "timeout" => p_log[i].result.error = "Timeout"
            /\ p_log[i].mode \in {"refused", "io"} =>
                   p_log[i].result.error # "Timeout"

\* Where a domain name that starts at pos ends, by its encoding: labels up
\* to a zero byte or up to a two-byte pointer.
RECURSIVE NameEnd(_, _)
NameEnd(response, pos) ==
    IF response[pos + 1] = 0 THEN pos + 1
    ELSE IF response[pos + 1] >= 192 THEN pos + 2
    ELSE NameEnd(response, pos + response[pos + 1] + 1)

\* The payload of the first record at or after pos that has type 1 and four
\* bytes of data; the empty sequence when there is none.
RECURSIVE FirstA(_, _)
FirstA(response, pos) ==
    IF pos >= Len(response) THEN <<>>
    ELSE LET fixed == NameEnd(response, pos)
             rtype == Unpack16(response, fixed)
             rdlength == Unpack16(response, fixed + 8)
         IN  IF rtype = 1 /\ rdlength = 4
               THEN SubSeq(response, fixed + 11, fixed + 14)
             ELSE FirstA(response, fixed + 10 + rdlength)

\* The well-formed responses among the datagrams: header, one question,
\* whole records.
WellFormed ==
    {RespA, RespNoAnswer, RespLabelsA, RespCnameA, RespLabelPointerA}

\* C23: for every well-formed DNS response, whose record owner names are a
\* two-byte pointer, labels ending in a zero byte, or labels followed by a
\* pointer, _parse_dns_response returns the address of the first record
\* with type A and four bytes of data, skipping every earlier record by its
\* rdlength, and the empty string when there is no such record.
C23_FirstARecordReturned ==
    \A i \in DOMAIN p_log :
        (p_log[i].probe = "test_dns_server" /\ p_log[i].mode = "ok"
           /\ p_log[i].response \in WellFormed) =>
            /\ ~p_log[i].result.raised
            /\ p_log[i].result.resolved_ip
                 = FirstA(p_log[i].response,
                          NameEnd(p_log[i].response, 12) + 4)

\* C24: when the DNS probe receives a response datagram within the timeout
\* it reports success = true whatever the datagram holds: a malformed
\* response (truncated, or whose records cannot be walked) or one without
\* an A record gives an empty resolved_ip with success = true, never
\* success = false.
C24_AnyDatagramIsSuccess ==
    \A i \in DOMAIN p_log :
        (p_log[i].probe = "test_dns_server"
           /\ p_log[i].mode \in {"ok", "malformed"}) =>
            /\ ~p_log[i].result.raised
            /\ p_log[i].result.success = TRUE
            /\ (p_log[i].mode = "malformed" \/ p_log[i].response = RespNoAnswer) =>
                   p_log[i].result.resolved_ip = <<>>

(***************************************************************************)
(* Specification SpecScore: the two scoring functions on free inputs       *)
(***************************************************************************)

\* Every two-decimal success rate from 0.00 to 100.00.
Rates == 0 .. (100 * Scale)

\* Average latencies on and just past every threshold of both step functions.
AvgTimes ==
    {0, 1} \cup
    UNION { {t * Scale, t * Scale + 1} : t \in {10, 25, 50, 100, 200, 500, 1000} }

ScoreIdle ==
    /\ sc_kind = "dns"
    /\ sc_avg_time = 0
    /\ sc_success_rate = 0
    /\ sc_result = 0
    /\ sc_pc = "idle"

ScoreInit ==
    /\ sc_kind \in {"dns", "cdn"}
    /\ sc_avg_time \in AvgTimes
    /\ sc_success_rate \in Rates
    /\ sc_result = 0
    /\ sc_pc = "input"

\* One call of _calculate_reliability / _calculate_score.
ApplyScore ==
    /\ sc_pc = "input"
    /\ sc_result' = score_of(sc_kind, sc_avg_time, sc_success_rate)
    /\ sc_pc' = "done"
    /\ UNCHANGED <<sc_kind, sc_avg_time, sc_success_rate>>

ScoreNext == ApplyScore /\ UNCHANGED <<b_vars, p_vars, ps_vars, r_vars, n_vars, s_vars, j_vars>>

\* C2 (as claimed): for every success_rate in (0, 100] the returned score is
\* round(success_rate * 0.6 + time_score * 0.4), the weighted sum rounded to
\* the nearest integer, and lies in 0..100.
C2_ScoreIsRoundedSum ==
    (sc_pc = "done" /\ sc_success_rate > 0) =>
        /\ sc_result = RoundNearest(6 * sc_success_rate
                                      + 4 * Scale * time_score_of(sc_kind, sc_avg_time),
                                    10 * Scale)
        /\ sc_result \in 0 .. 100

\* C21: with the success rate held fixed, the DNS score and the CDN score
\* never rise when the average latency rises: for a <= b,
\* score(a, success_rate) >= score(b, success_rate), on and just past every
\* threshold of the step functions.
C21_ScoreFallsWithLatency ==
    sc_pc = "done" =>
        \A other \in AvgTimes :
           /\ other >= sc_avg_time =>
                 score_of(sc_kind, other, sc_success_rate) <= sc_result
           /\ other <= sc_avg_time =>
                 score_of(sc_kind, other, sc_success_rate) >= sc_result

\* A DNS score just past the 10 ms threshold: 96, where 10 ms itself gives
\* 100.
C21_Witness ==
    /\ sc_pc = "done"
    /\ sc_kind = "dns"
    /\ sc_avg_time = 10 * Scale + 1
    /\ sc_success_rate = 100 * Scale
    /\ sc_result = 96
    /\ score_of("dns", 10 * Scale, sc_success_rate) = 100

(***************************************************************************)
(* Specification SpecPorts: one call of PortScanner.scan_ports             *)
(* (port_scanner.py lines 122-172)                                         *)
(***************************************************************************)

\* The most ports one call scans.
MaxPorts == 4

\* PortScanner.concurrent_limit.  The code sets 100; the model runs the same
\* semaphore with a limit below MaxPorts, so that tasks have to wait.
concurrent_limit == 2

\* The key lists are cut to the first MaxPorts keys.
Cut(keys) == SubSeq(keys, 1, Min2(Len(keys), MaxPorts))

\* Lines 124-131: an empty or missing ports list falls through to scan_type.
target_ports(ports, scan_type) ==
    IF ports # <<>> THEN ports
    ELSE IF scan_type = "vpn" THEN Cut(VPN_KEYS)
    ELSE IF scan_type = "all" THEN Cut(ALL_KEYS)
    ELSE Cut(COMMON_KEYS)

\* The ports arguments tried: none, prefixes of a pool, and {21, 80, 443}.
PortPool == <<443, 9999, 8388, 22, 21, 80>>

PortLists ==
    {SubSeq(PortPool, 1, n) : n \in 0 .. Min2(MaxPorts, Len(PortPool))}
    \cup {<<21, 80, 443>>}

\* What one connection attempt meets: established, timeout, refused,
\* network unreachable.
PortEvents ==
    {Ev(exc, 0, 0, <<>>) :
       exc \in {"none", "asyncio.TimeoutError", "ConnectionRefusedError", "OSError"}}

\* Mutant: a semaphore that never reports itself exhausted.
locked_never(value) == FALSE

\* asyncio.Semaphore.locked(): no permit left.
locked(value) == value = 0

\* Mutant: the permit of a probe that timed out is kept.
release_unless_timeout(value, exc) ==
    IF exc = "asyncio.TimeoutError" THEN value ELSE value + 1

\* The exit of "async with semaphore:": scan_port catches what its attempt
\* met (exc) and returns, and the permit goes back.
release(value, exc) == value + 1

\* The loop of lines 154-162 for one of the three lists.
with_status(scan_results, status) ==
    SelectSeq(scan_results, LAMBDA r : r.status = status)

\* Lines 133-172: the dicts scan_ports can return for the gathered results.
scan_ports_reports(scan_type, ports, scan_results) ==
    LET open_ports == with_status(scan_results, "open")
        closed_ports == with_status(scan_results, "closed")
        filtered_ports == with_status(scan_results, "filtered")
    IN  { [scan_type |-> scan_type,
           ports_scanned |-> Len(ports),
           open_ports |-> open_ports,
           closed_ports |-> closed_ports,
           filtered_ports |-> filtered_ports,
           results |-> scan_results,
           summary |-> [total_scanned |-> Len(ports),
                        open |-> Len(open_ports),
                        closed |-> Len(closed_ports),
                        filtered |-> Len(filtered_ports),
                        open_percentage |-> pct]] :
          pct \in RoundChoices(Len(open_ports) * 100 * Scale, Len(ports)) }

ps_target == target_ports(ps_ports, ps_scan_type)

Tasks == DOMAIN ps_task

InFlight == {i \in Tasks : ps_task[i] = "in_flight"}

NoPortsReport ==
    [scan_type |-> "common", ports_scanned |-> 0, open_ports |-> <<>>,
     closed_ports |-> <<>>, filtered_ports |-> <<>>, results |-> <<>>,
     summary |-> [total_scanned |-> 0, open |-> 0, closed |-> 0,
                  filtered |-> 0, open_percentage |-> 0]]

PortsIdle ==
    /\ ps_ports = <<>>
    /\ ps_scan_type = "common"
    /\ ps_task = <<>>
    /\ ps_value = 0
    /\ ps_outcome = <<>>
    /\ ps_scan_results = <<>>
    /\ ps_report = NoPortsReport
    /\ ps_pc = "idle"

\* The call has built its tasks; none has run yet.
PortsInit ==
    /\ ps_ports \in PortLists
    /\ ps_scan_type \in {"common", "vpn", "all"}
    /\ ps_task = [i \in 1 .. Len(target_ports(ps_ports, ps_scan_type)) |-> "waiting"]
    /\ ps_value = concurrent_limit
    /\ ps_outcome = [i \in 1 .. Len(target_ports(ps_ports, ps_scan_type)) |-> "pending"]
    /\ ps_scan_results = [i \in 1 .. Len(target_ports(ps_ports, ps_scan_type)) |-> <<>>]
    /\ ps_report = NoPortsReport
    /\ ps_pc = "gather"

\* "async with semaphore:" entered by task i.
Acquire(i) ==
    /\ ps_pc = "gather"
    /\ ps_task[i] = "waiting"
    /\ ~locked(ps_value)
    /\ ps_value' = ps_value - 1
    /\ ps_task' = [ps_task EXCEPT ![i] = "in_flight"]
    /\ UNCHANGED <<ps_ports, ps_scan_type, ps_outcome, ps_scan_results,
                   ps_report, ps_pc>>

\* scan_port returns in task i and the "async with" block is left.
ScanPortReturns(i) ==
    /\ ps_pc = "gather"
    /\ ps_task[i] = "in_flight"
    /\ \E ev \in PortEvents :
         LET result == scan_port(ps_target[i], ev)
         IN  /\ ~result.raised
             /\ ps_scan_results' = [ps_scan_results EXCEPT ![i] = <<result>>]
             /\ ps_outcome' = [ps_outcome EXCEPT ![i] = ev.exc]
             /\ ps_value' = release(ps_value, ev.exc)
    /\ ps_task' = [ps_task EXCEPT ![i] = "done"]
    /\ UNCHANGED <<ps_ports, ps_scan_type, ps_report, ps_pc>>

\* gather has every result: classify, summarise, return.
ScanPortsReturns ==
    /\ ps_pc = "gather"
    /\ \A i \in Tasks : ps_task[i] = "done"
    /\ ps_report' \in scan_ports_reports(ps_scan_type, ps_target,
                        [i \in Tasks |-> ps_scan_results[i][1]])
    /\ ps_pc' = "done"
    /\ UNCHANGED <<ps_ports, ps_scan_type, ps_task, ps_value, ps_outcome,
                   ps_scan_results>>

PortsNext ==
    \/ (\E i \in Tasks : Acquire(i)) /\ UNCHANGED <<sc_vars, b_vars, p_vars, r_vars, n_vars, s_vars, j_vars>>
    \/ (\E i \in Tasks : ScanPortReturns(i)) /\ UNCHANGED <<sc_vars, b_vars, p_vars, r_vars, n_vars, s_vars, j_vars>>
    \/ ScanPortsReturns /\ UNCHANGED <<sc_vars, b_vars, p_vars, r_vars, n_vars, s_vars, j_vars>>

(***************************************************************************)
(* Properties of scan_ports                                                *)
(***************************************************************************)

\* The ports of a list of results, in order.
PortsOf(rs) == [k \in DOMAIN rs |-> rs[k].port]

\* The status scan_ports is to give a port for what its attempt met.
ExpectedStatus(outcome) ==
    IF outcome = "none" THEN "open"
    ELSE IF outcome = "ConnectionRefusedError" THEN "closed"
    ELSE IF outcome = "asyncio.TimeoutError" THEN "filtered"
    ELSE "error"

ListOf(status) ==
    IF status = "open" THEN ps_report.open_ports
    ELSE IF status = "closed" THEN ps_report.closed_ports
    ELSE ps_report.filtered_ports

\* C8: a port whose connection was established has status open and is in
\* open_ports, a refused one is closed and in closed_ports, a timed-out one
\* is filtered and in filtered_ports; each of the three lists holds exactly
\* the results with its status; open_percentage is
\* round(open / total_scanned x 100, 2).
C8_PortsClassified ==
    ps_pc = "done" =>
        /\ \A i \in Tasks :
             ps_outcome[i] \in {"none", "ConnectionRefusedError", "asyncio.TimeoutError"} =>
                /\ ps_report.results[i].port = ps_target[i]
                /\ ps_report.results[i].status = ExpectedStatus(ps_outcome[i])
                /\ \E k \in DOMAIN ListOf(ExpectedStatus(ps_outcome[i])) :
                      ListOf(ExpectedStatus(ps_outcome[i]))[k] = ps_report.results[i]
        /\ \A status \in {"open", "closed", "filtered"} :
             /\ \A k \in DOMAIN ListOf(status) : ListOf(status)[k].status = status
             /\ Len(ListOf(status))
                  = Cardinality({i \in Tasks : ps_report.results[i].status = status})
        /\ ps_report.summary.total_scanned = Len(ps_target)
        /\ ps_report.summary.open = Len(ps_report.open_ports)
        /\ 2 * Abs(ps_report.summary.open_percentage * Len(ps_target)
                     - 100 * Scale * Len(ps_report.open_ports)) <= Len(ps_target)

\* Ports {21, 80, 443}: 21 open, 80 refused, 443 timed out; the report has
\* open = [21], closed = [80], filtered = [443] and 33.33 percent open.
C8_Witness ==
    /\ ps_pc = "done"
    /\ ps_ports = <<21, 80, 443>>
    /\ ps_outcome = <<"none", "ConnectionRefusedError", "asyncio.TimeoutError">>
    /\ PortsOf(ps_report.open_ports) = <<21>>
    /\ PortsOf(ps_report.closed_ports) = <<80>>
    /\ PortsOf(ps_report.filtered_ports) = <<443>>
    /\ ps_report.summary.open_percentage = 3333

\* C9: while scan_ports runs, whatever the number of target ports and the
\* order in which the tasks run, the connection attempts in flight never
\* outnumber concurrent_limit.
C9_InFlightBounded == Cardinality(InFlight) <= concurrent_limit

\* The limit binds: concurrent_limit attempts in flight and a task waiting.
C9_Witness ==
    /\ Cardinality(InFlight) = concurrent_limit
    /\ \E i \in Tasks : ps_task[i] = "waiting"
    /\ \E i \in Tasks : ps_task[i] = "done"

\* The event loop runs every task that is ready, and every connection
\* attempt ends, by wait_for's timeout at the latest: a step of scan_ports
\* that can be taken is taken.
PortsFairness == WF_vars(PortsNext)

\* C26: scan_ports terminates for any number of target ports, also more than
\* concurrent_limit: the permits in use and the free ones always add up to
\* concurrent_limit (the permit is released after each probe, whatever its
\* outcome), a step of one task changes no other task (a timeout cancels no
\* other probe), every waiting task eventually acquires the semaphore, and
\* the call eventually returns exactly one result per target port, in
\* target-port order.
C26_ScanPortsTerminates ==
    /\ [](ps_value + Cardinality(InFlight) = concurrent_limit)
    /\ [][\A i \in Tasks :
            ps_outcome'[i] = "asyncio.TimeoutError" /\ ps_outcome[i] = "pending" =>
               \A k \in Tasks \ {i} :
                  /\ ps_task'[k] = ps_task[k]
                  /\ ps_scan_results'[k] = ps_scan_results[k]]_vars
    /\ \A i \in 1 .. MaxPorts :
          (i \in Tasks /\ ps_task[i] = "waiting")
             ~> (i \in Tasks /\ ps_task[i] = "in_flight")
    /\ <>(/\ ps_pc = "done"
          /\ Len(ps_report.results) = Len(ps_target)
          /\ PortsOf(ps_report.results) = ps_target)

\* A call with more target ports than concurrent_limit has returned, and one
\* of its probes had timed out.
C26_Witness ==
    /\ ps_pc = "done"
    /\ Len(ps_target) > concurrent_limit
    /\ Len(ps_report.results) = Len(ps_target)
    /\ \E i \in Tasks : ps_outcome[i] = "asyncio.TimeoutError"
    /\ \E i \in Tasks : ps_outcome[i] = "none"

(***************************************************************************)
(* RecommendationEngine (recommendation_engine.py)                         *)
(* A dict is a function from its keys; d.get(k, default) is Get.           *)
(***************************************************************************)

EmptyDict == [k \in {} |-> 0]

\* None where a dict is expected.
PyNone == [py_none |-> TRUE]

\* bool(d) of a dict or None
Truthy(d) == d # PyNone /\ DOMAIN d # {}

Get(d, k, default) == IF k \in DOMAIN d THEN d[k] ELSE default

\* The dataclass Recommendation.  A text with a number formatted into it is
\* the tuple of its pieces.
Recommendation(category, priority, title, description, action, impact) ==
    [category |-> category, priority |-> priority, title |-> title,
     description |-> description, action |-> action, impact |-> impact]

\* _to_dict: the six fields, copied.
to_dict(rec) ==
    [category |-> rec.category, priority |-> rec.priority, title |-> rec.title,
     description |-> rec.description, action |-> rec.action,
     impact |-> rec.impact]

\* _analyze_network: what it appends.  Latencies in 1/100 ms.
analyze_network(data) ==
    LET latency == Get(data, "latency_ms", 0)
        mtu == Get(data, "mtu", 1500)
    IN  (IF latency > 100 * Scale
           THEN <<Recommendation("network", "high", "High Network Latency",
                    <<"Your network latency is ", latency,
                      "ms which may impact performance.">>,
                    "Consider switching to a closer server or using a VPN with better routing.",
                    "Reduce latency by up to 50%")>>
         ELSE IF latency > 50 * Scale
           THEN <<Recommendation("network", "medium", "Moderate Network Latency",
                    <<"Your network latency is ", latency,
                      "ms which is acceptable but could be improved.">>,
                    "Consider using a CDN or optimizing your connection.",
                    "Improve response times by 10-30%")>>
         ELSE <<>>)
        \o
        (IF mtu < 1400
           THEN <<Recommendation("network", "medium", "Low MTU Detected",
                    <<"Your MTU is ", mtu, " which may cause fragmentation.">>,
                    "Consider adjusting MTU settings or using a VPN that handles fragmentation.",
                    "Reduce packet overhead and improve throughput")>>
         ELSE <<>>)

\* The first entry of servers.items() whose privacy is "high", as a list of
\* at most one entry (the loop breaks after it).
FirstHighPrivacy(servers) ==
    LET hits == SelectSeq(servers, LAMBDA e : Get(e, "privacy", NoneVal) = "high")
    IN  IF hits = <<>> THEN <<>> ELSE <<hits[1]>>

\* _analyze_dns.  servers is the dict in insertion order, each entry with
\* its key as field name.
analyze_dns(data) ==
    LET best == Get(data, "best_server", EmptyDict)
        current_time == Get(best, "avg_response_time", 0)
        servers == Get(data, "servers", <<>>)
        private == FirstHighPrivacy(servers)
    IN  (IF Truthy(best) /\ current_time > 50 * Scale
           THEN <<Recommendation("dns", "high", "Slow DNS Resolution",
                    <<"DNS resolution time is ", current_time, "ms which is slow.">>,
                    "Switch to " \o Get(best, "name", "a faster DNS")
                        \o " for better performance.",
                    "Reduce page load times significantly")>>
         ELSE <<>>)
        \o
        (IF private # <<>>
           THEN <<Recommendation("privacy", "low",
                    "Consider " \o private[1].name \o " for Privacy",
                    <<private[1].name \o " offers high privacy protection.">>,
                    "Use " \o Get(private[1], "ip", private[1].name)
                        \o " as your DNS server.",
                    "Improve privacy and reduce tracking")>>
         ELSE <<>>)

\* _analyze_cdn
analyze_cdn(data) ==
    LET best == Get(data, "best_cdn", EmptyDict)
        time_ms == Get(best, "avg_response_time", 0)
    IN  IF ~Truthy(best) THEN <<>>
        ELSE IF time_ms < 100 * Scale
          THEN <<Recommendation("cdn", "low", "Optimal CDN Performance",
                   <<Get(best, "name", "CDN") \o " is performing excellently at ",
                     time_ms, "ms.">>,
                   "Continue using current CDN configuration.",
                   "Already optimized")>>
        ELSE <<Recommendation("cdn", "medium", "CDN Optimization Possible",
                 <<"CDN response time is ", time_ms, "ms.">>,
                 "Consider using " \o Get(best, "name", "a different CDN") \o ".",
                 "Improve content delivery by 20-40%")>>

\* _analyze_protocol.  Rates in 1/100 percent, times in 1/100 ms.
analyze_protocol(data) ==
    LET summary == Get(data, "summary", EmptyDict)
        tls13 == Get(summary, "tls_1_3", EmptyDict)
        https == Get(summary, "https", EmptyDict)
    IN  (IF Get(tls13, "success_rate", 0) < 50 * Scale
           THEN <<Recommendation("security", "high", "TLS 1.3 Not Available",
                    <<"TLS 1.3 is not consistently available on tested endpoints.">>,
                    "Ensure your servers support TLS 1.3 for better security and performance.",
                    "Improve security and reduce handshake latency")>>
         ELSE <<>>)
        \o
        (IF Get(https, "avg_time_ms", 0) > 500 * Scale
           THEN <<Recommendation("performance", "medium", "Slow HTTPS Connections",
                    <<"HTTPS connections averaging ", Get(https, "avg_time_ms", 0),
                      "ms.">>,
                    "Consider using HTTP/2 or optimizing TLS settings.",
                    "Reduce connection overhead by 30%")>>
         ELSE <<>>)

\* Mutant: SSH (22) counted among the risky ports.
analyze_ports_ssh_risky(data) ==
    LET open_ports == Get(data, "open_ports", <<>>)
        risky_ports == SelectSeq(open_ports,
                         LAMBDA q : Get(q, "port", NoneVal) \in {23, 21, 3389, 22})
        vpn_ports == SelectSeq(open_ports,
                         LAMBDA q : Get(q, "category", NoneVal) = "vpn")
    IN  (IF risky_ports # <<>>
           THEN <<Recommendation("security", "high", "Potentially Risky Ports Open",
                    <<"Found ", Len(risky_ports), " potentially risky ports open.">>,
                    "Review and close unnecessary ports, or restrict access via firewall.",
                    "Improve security posture significantly")>>
         ELSE <<>>)
        \o
        (IF vpn_ports # <<>>
           THEN <<Recommendation("vpn", "low", "VPN Ports Available",
                    <<"", Len(vpn_ports), " VPN-related ports are open.">>,
                    "Consider using these for secure connections.",
                    "Enable VPN connectivity")>>
         ELSE <<>>)

\* _analyze_ports
analyze_ports(data) ==
    LET open_ports == Get(data, "open_ports", <<>>)
        risky_ports == SelectSeq(open_ports,
                         LAMBDA q : Get(q, "port", NoneVal) \in {23, 21, 3389})
        vpn_ports == SelectSeq(open_ports,
                         LAMBDA q : Get(q, "category", NoneVal) = "vpn")
    IN  (IF risky_ports # <<>>
           THEN <<Recommendation("security", "high", "Potentially Risky Ports Open",
                    <<"Found ", Len(risky_ports), " potentially risky ports open.">>,
                    "Review and close unnecessary ports, or restrict access via firewall.",
                    "Improve security posture significantly")>>
         ELSE <<>>)
        \o
        (IF vpn_ports # <<>>
           THEN <<Recommendation("vpn", "low", "VPN Ports Available",
                    <<"", Len(vpn_ports), " VPN-related ports are open.">>,
                    "Consider using these for secure connections.",
                    "Enable VPN connectivity")>>
         ELSE <<>>)

\* _analyze_ping
analyze_ping(data) ==
    LET fastest == Get(data, "fastest_region", EmptyDict)
        latency == Get(fastest, "avg_latency_ms", 0)
    IN  IF ~Truthy(fastest) THEN <<>>
        ELSE <<Recommendation("deployment", "medium",
                 "Optimal Region: " \o Get(fastest, "name", "Unknown"),
                 <<"Lowest latency region at ", latency, "ms.">>,
                 "Consider deploying to " \o Get(fastest, "location", "this region")
                     \o " for best performance.",
                 "Minimize latency for your users")>>

\* Mutant: a bucket that takes every recommendation.
bucket_unfiltered(recs, priority) == recs

\* [r for r in self.recommendations if r.priority == priority]
bucket(recs, priority) == SelectSeq(recs, LAMBDA r : r.priority = priority)

\* _generate_summary
generate_summary(recs) ==
    LET total == Len(recs)
        high == Len(SelectSeq(recs, LAMBDA r : r.priority = "high"))
    IN  IF high > 0
          THEN <<"Found ", total, " recommendations with ", high,
                 " high-priority items requiring attention.">>
        ELSE IF total > 0
          THEN <<"Found ", total,
                 " recommendations. Your network is performing well with room for optimization.">>
        ELSE <<"No recommendations at this time. Consider running more tests.">>

\* Mutant: the six domains taken in the reverse order.
collect_ping_first(network, dns, cdn, protocol, port, ping) ==
    (IF Truthy(ping) THEN analyze_ping(ping) ELSE <<>>)
    \o (IF Truthy(port) THEN analyze_ports(port) ELSE <<>>)
    \o (IF Truthy(protocol) THEN analyze_protocol(protocol) ELSE <<>>)
    \o (IF Truthy(cdn) THEN analyze_cdn(cdn) ELSE <<>>)
    \o (IF Truthy(dns) THEN analyze_dns(dns) ELSE <<>>)
    \o (IF Truthy(network) THEN analyze_network(network) ELSE <<>>)

\* Lines 42-60 of analyze: the list rebuilt from the six reports, in order.
collect(network, dns, cdn, protocol, port, ping) ==
    (IF Truthy(network) THEN analyze_network(network) ELSE <<>>)
    \o (IF Truthy(dns) THEN analyze_dns(dns) ELSE <<>>)
    \o (IF Truthy(cdn) THEN analyze_cdn(cdn) ELSE <<>>)
    \o (IF Truthy(protocol) THEN analyze_protocol(protocol) ELSE <<>>)
    \o (IF Truthy(port) THEN analyze_ports(port) ELSE <<>>)
    \o (IF Truthy(ping) THEN analyze_ping(ping) ELSE <<>>)

MapSeq(recs, Op(_)) == [k \in DOMAIN recs |-> Op(recs[k])]

\* Lines 62-77 of analyze: the returned dict.
analyze_output(recs) ==
    LET high_priority == bucket(recs, "high")
        medium_priority == bucket(recs, "medium")
        low_priority == bucket(recs, "low")
    IN  [total_recommendations |-> Len(recs),
         high_priority |-> Len(high_priority),
         medium_priority |-> Len(medium_priority),
         low_priority |-> Len(low_priority),
         recommendations |-> [high |-> MapSeq(high_priority, to_dict),
                              medium |-> MapSeq(medium_priority, to_dict),
                              low |-> MapSeq(low_priority, to_dict)],
         summary |-> generate_summary(recs)]

(***************************************************************************)
(* ServiceArchitect (service_architect.py lines 20-233)                    *)
(***************************************************************************)

\* The first component of a type, as a list of at most one:
\* next((c for c in components if c["type"] == t), None)
FirstOfType(components, t) ==
    LET hits == SelectSeq(components, LAMBDA c : c.type = t)
    IN  IF hits = <<>> THEN <<>> ELSE <<hits[1]>>

\* best = data[key] followed by best.get(...): None has no .get, so the call
\* raises AttributeError.
NoneDeref(data, key) ==
    Truthy(data) /\ key \in DOMAIN data /\ data[key] = PyNone

\* Lines 38-47: the dns component, if any.
dns_component(dns) ==
    IF Truthy(dns) /\ "best_server" \in DOMAIN dns
      THEN <<[type |-> "dns",
                   name |-> Get(dns.best_server, "name", "Recommended DNS"),
                   config |-> [primary |-> Get(dns.best_server, "ip", NoneVal),
                               features |-> Get(dns.best_server, "features", <<>>)]]>>
    ELSE <<>>

\* Lines 50-60: the region component, if any.
region_component(ping) ==
    IF Truthy(ping) /\ "fastest_region" \in DOMAIN ping
      THEN <<[type |-> "region",
                   name |-> Get(ping.fastest_region, "name", "Optimal Region"),
                   config |-> [provider |-> Get(ping.fastest_region, "provider", NoneVal),
                               location |-> Get(ping.fastest_region, "location", NoneVal),
                               latency_ms |-> Get(ping.fastest_region,
                                                  "avg_latency_ms", NoneVal)]]>>
    ELSE <<>>

\* Lines 63-72: the network component.
network_component(network) ==
    IF Truthy(network)
      THEN <<[type |-> "network", name |-> "Network Configuration",
              config |-> [mtu |-> Get(network, "mtu", 1500),
                          latency_target |-> "< 50ms",
                          protocol |-> "TCP/UDP optimized"]]>>
    ELSE <<>>

\* ServiceArchitect._design_connections
design_connections(components) ==
    LET dns_c == FirstOfType(components, "dns")
        region_c == FirstOfType(components, "region")
    IN  IF dns_c # <<>> /\ region_c # <<>>
          THEN <<[from |-> "client", to |-> dns_c[1].name,
                  protocol |-> "DNS over HTTPS",
                  purpose |-> "Secure name resolution"],
                 [from |-> "client", to |-> region_c[1].name,
                  protocol |-> "HTTPS/TLS 1.3",
                  purpose |-> "Primary application traffic"]>>
        ELSE <<>>

\* ServiceArchitect._generate_configs: the templates present, in order of
\* insertion (the nginx text is abbreviated to its first line).
generate_configs(components) ==
    LET dns_c == FirstOfType(components, "dns")
        region_c == FirstOfType(components, "region")
    IN  (IF dns_c # <<>>
           THEN <<[key |-> "dns",
                   description |-> "Recommended DNS configuration",
                   primary |-> dns_c[1].config.primary,
                   secondary |-> "1.0.0.1",
                   doh_endpoint |-> "https://" \o dns_c[1].config.primary \o "/dns-query",
                   dot_endpoint |-> "tls://" \o dns_c[1].config.primary]>>
         ELSE <<>>)
        \o
        (IF region_c # <<>>
           THEN <<[key |-> "deployment",
                   description |-> "Recommended deployment region",
                   provider |-> region_c[1].config.provider,
                   region |-> region_c[1].name,
                   expected_latency |-> <<region_c[1].config.latency_ms, "ms">>]>>
         ELSE <<>>)
        \o
        <<[key |-> "nginx",
           description |-> "Optimized Nginx configuration snippet",
           config |-> "# Optimized Nginx Configuration"]>>

ArchRec(category, title, description, priority) ==
    [category |-> category, title |-> title, description |-> description,
     priority |-> priority]

\* ServiceArchitect._generate_recommendations (requirements is not read).
generate_recommendations(network, dns, ping) ==
    <<ArchRec("general", "Use TLS 1.3",
        <<"Ensure all connections use TLS 1.3 for best security and performance.">>,
        "high"),
      ArchRec("general", "Enable HTTP/2",
        <<"HTTP/2 provides better multiplexing and compression.">>, "high")>>
    \o (IF Truthy(dns)
          THEN <<ArchRec("dns", "Use DNS over HTTPS",
                   <<"DoH provides encrypted DNS queries for better privacy.">>,
                   "medium")>>
        ELSE <<>>)
    \o (IF Truthy(network) /\ Get(network, "latency_ms", 0) > 100 * Scale
          THEN <<ArchRec("performance", "Consider CDN",
                   <<"High latency detected. Using a CDN can significantly improve performance.">>,
                   "high")>>
        ELSE <<>>)
    \o (IF Truthy(ping) /\ "fastest_region" \in DOMAIN ping
          THEN <<ArchRec("deployment",
                   "Deploy to " \o Get(ping.fastest_region, "name", "optimal region"),
                   <<"This region has the lowest latency at ",
                     Get(ping.fastest_region, "avg_latency_ms", NoneVal), "ms.">>,
                   "medium")>>
        ELSE <<>>)

\* ServiceArchitect.design.  An AttributeError of lines 42 or 54 leaves the
\* function.
design(network, dns, ping) ==
    IF NoneDeref(dns, "best_server") \/ NoneDeref(ping, "fastest_region")
      THEN Raise("AttributeError")
    ELSE LET components == dns_component(dns) \o region_component(ping) \o network_component(network)
             IN  [raised |-> FALSE,
                  name |-> "Optimized Network Architecture",
                  components |-> components,
                  connections |-> design_connections(components),
                  config_templates |-> generate_configs(components),
                  recommendations |->
                      generate_recommendations(network, dns, ping)]

(***************************************************************************)
(* Specification SpecRec: one call of analyze on the shared engine         *)
(***************************************************************************)

NetworkInputs ==
    {PyNone, EmptyDict,
     [latency_ms |-> 120 * Scale, mtu |-> 1500],
     [latency_ms |-> 60 * Scale, mtu |-> 1300],
     [latency_ms |-> 150 * Scale, mtu |-> 1300],
     [latency_ms |-> 100 * Scale],
     [mtu |-> 1399],
     [download_mbps |-> 10 * Scale]}

DnsInputs ==
    {PyNone, EmptyDict,
     [best_server |-> PyNone, servers |-> <<>>, total_tested |-> 0],
     [best_server |-> [name |-> "Cloudflare", avg_response_time |-> 60 * Scale],
      servers |-> <<[name |-> "Cloudflare", privacy |-> "high", ip |-> "1.1.1.1"]>>,
      total_tested |-> 1],
     [best_server |-> [name |-> "Google", avg_response_time |-> 50 * Scale],
      servers |-> <<[name |-> "Google", privacy |-> "medium"],
                    [name |-> "Quad9", privacy |-> "high"],
                    [name |-> "Cloudflare", privacy |-> "high", ip |-> "1.1.1.1"]>>,
      total_tested |-> 3]}

\* Lines 185-198 of CDNTester.benchmark: the returned dict.
cdn_report(recs, n_iterations) ==
    LET rep == make_report(recs)
    IN  [providers |-> rep.servers,
         best_cdn |-> IF rep.best = <<>> THEN PyNone ELSE rep.best[1],
         total_tested |-> rep.total_tested,
         iterations |-> n_iterations]

\* CDNTester.benchmark(iterations) where evs[c][k] is what probe k of
\* provider c meets: the dicts it can return.
cdn_benchmark(evs, n_iterations) ==
    LET recs_of(c) ==
            target_results("cdn", CDN_PROVIDERS[c],
                run_samples("cdn",
                    [k \in 1 .. n_iterations |-> probe("cdn", evs[c][k])],
                    n_iterations),
                n_iterations)
    IN  {cdn_report(recs, n_iterations) :
           recs \in {f \in [DOMAIN CDN_PROVIDERS ->
                               UNION {recs_of(c) : c \in DOMAIN CDN_PROVIDERS}] :
                       \A c \in DOMAIN CDN_PROVIDERS : f[c] \in recs_of(c)}}

\* Two probes per provider: all failing (timeouts, refused connections, a
\* status of 404), the second provider answering in 40 ms, both answering in
\* 150 and 120 ms.
CdnBenchRuns ==
    {<<<<Ev("asyncio.TimeoutError", 0, 0, <<>>),
         Ev("aiohttp.ClientConnectorError", 0, 0, <<>>)>>,
       <<Ev("asyncio.TimeoutError", 0, 0, <<>>),
         Ev("none", 5 * Scale, 404, <<>>)>>>>,
     <<<<Ev("asyncio.TimeoutError", 0, 0, <<>>),
         Ev("asyncio.TimeoutError", 0, 0, <<>>)>>,
       <<Ev("none", 40 * Scale, 200, <<>>),
         Ev("asyncio.TimeoutError", 0, 0, <<>>)>>>>,
     <<<<Ev("none", 150 * Scale, 200, <<>>),
         Ev("none", 150 * Scale, 200, <<>>)>>,
       <<Ev("none", 120 * Scale, 200, <<>>),
         Ev("none", 120 * Scale, 200, <<>>)>>>>}

CdnBenchReports == UNION {cdn_benchmark(evs, 2) : evs \in CdnBenchRuns}

CdnInputs ==
    CdnBenchReports \cup
    {PyNone,
     [best_cdn |-> PyNone, total_tested |-> 0],
     [best_cdn |-> [name |-> "Cloudflare", avg_response_time |-> 40 * Scale]],
     [best_cdn |-> [name |-> "Fastly", avg_response_time |-> 100 * Scale]],
     [best_cdn |-> [name |-> "Fastly", avg_response_time |-> 0, score |-> 0]]}

ProtocolInputs ==
    {PyNone,
     [summary |-> [tls_1_3 |-> [success_rate |-> 100 * Scale],
                   https |-> [avg_time_ms |-> 600 * Scale]]],
     [summary |-> [tls_1_3 |-> [success_rate |-> 25 * Scale],
                   https |-> [avg_time_ms |-> 500 * Scale]]],
     [hosts_tested |-> 4]}

\* scan_ports reports: nothing open; 21 open; 443 and 22 open; 21 and 1194.
PortInputs ==
    {PyNone}
    \cup scan_ports_reports("common", <<21, 80>>,
            <<scan_port(21, Ev("ConnectionRefusedError", 0, 0, <<>>)),
              scan_port(80, Ev("asyncio.TimeoutError", 0, 0, <<>>))>>)
    \cup scan_ports_reports("common", <<21, 80, 443>>,
            <<scan_port(21, Ev("none", 0, 0, <<>>)),
              scan_port(80, Ev("ConnectionRefusedError", 0, 0, <<>>)),
              scan_port(443, Ev("asyncio.TimeoutError", 0, 0, <<>>))>>)
    \cup scan_ports_reports("common", <<443, 22>>,
            <<scan_port(443, Ev("none", 0, 0, <<>>)),
              scan_port(22, Ev("none", 0, 0, <<>>))>>)
    \cup scan_ports_reports("vpn", <<21, 1194>>,
            <<scan_port(21, Ev("none", 0, 0, <<>>)),
              scan_port(1194, Ev("none", 0, 0, <<>>))>>)

PingInputs ==
    {PyNone,
     [fastest_region |-> PyNone, regions |-> <<>>],
     [fastest_region |-> EmptyDict, regions |-> <<>>],
     [fastest_region |-> [name |-> "US East (Virginia)",
                          location |-> "Virginia",
                          avg_latency_ms |-> 20 * Scale]]}

\* What an earlier call can have left in self.recommendations.
StaleLists ==
    {<<>>,
     <<Recommendation("security", "high", "TLS 1.3 Not Available",
         <<"TLS 1.3 is not consistently available on tested endpoints.">>,
         "Ensure your servers support TLS 1.3 for better security and performance.",
         "Improve security and reduce handshake latency")>>}

NoOutput == analyze_output(<<>>)

RecIdle ==
    /\ network_data = EmptyDict
    /\ dns_data = EmptyDict
    /\ cdn_data = EmptyDict
    /\ protocol_data = EmptyDict
    /\ port_data = EmptyDict
    /\ ping_data = EmptyDict
    /\ recommendations = <<>>
    /\ r_stale = <<>>
    /\ r_output = NoOutput
    /\ r_pc = "idle"
    /\ architecture = Raise("none")
    /\ a_pc = "idle"

RecInit ==
    /\ network_data \in NetworkInputs
    /\ dns_data \in DnsInputs
    /\ cdn_data \in CdnInputs
    /\ protocol_data \in ProtocolInputs
    /\ port_data \in PortInputs
    /\ ping_data \in PingInputs
    /\ recommendations \in StaleLists
    /\ r_stale = recommendations
    /\ r_output = NoOutput
    /\ r_pc = "call"
    /\ architecture = Raise("none")
    /\ a_pc = "call"

\* Mutant: the list of the earlier call kept.
fresh_list_kept(stale) == stale

\* Line 42 of analyze: self.recommendations = [].
fresh_list(stale) == <<>>

\* RecommendationEngine.analyze, whole.
Analyze ==
    /\ r_pc = "call"
    /\ recommendations' = fresh_list(recommendations)
                            \o collect(network_data, dns_data, cdn_data,
                                       protocol_data, port_data, ping_data)
    /\ r_output' = analyze_output(recommendations')
    /\ r_pc' = "done"
    /\ UNCHANGED <<network_data, dns_data, cdn_data, protocol_data, port_data,
                   ping_data, r_stale, architecture, a_pc>>

\* ServiceArchitect.design, whole, on the same reports.
Design ==
    /\ a_pc = "call"
    /\ architecture' = design(network_data, dns_data, ping_data)
    /\ a_pc' = IF architecture'.raised THEN "raised" ELSE "done"
    /\ UNCHANGED <<network_data, dns_data, cdn_data, protocol_data, port_data,
                   ping_data, recommendations, r_stale, r_output, r_pc>>

RecNext ==
    \/ Analyze /\ UNCHANGED <<sc_vars, b_vars, p_vars, ps_vars, n_vars, s_vars, j_vars>>
    \/ Design /\ UNCHANGED <<sc_vars, b_vars, p_vars, ps_vars, n_vars, s_vars, j_vars>>

(***************************************************************************)
(* Properties of analyze                                                   *)
(***************************************************************************)

Priorities == {"high", "medium", "low"}

\* The places (bucket, index) of the output that hold a recommendation.
PlacesOf(rec) ==
    {<<pr, k>> \in Priorities \X (1 .. Len(recommendations)) :
        /\ k <= Len(r_output.recommendations[pr])
        /\ r_output.recommendations[pr][k] = to_dict(rec)}

\* C10: in the output of analyze the three bucket lengths add up to
\* total_recommendations, every generated recommendation is in exactly one
\* bucket, the one its priority names, and the three counts are the bucket
\* lengths.
C10_BucketsPartition ==
    r_pc = "done" =>
        /\ r_output.total_recommendations = Len(recommendations)
        /\ Len(r_output.recommendations.high) + Len(r_output.recommendations.medium)
             + Len(r_output.recommendations.low) = r_output.total_recommendations
        /\ \A i \in DOMAIN recommendations :
             /\ Cardinality(PlacesOf(recommendations[i])) = 1
             /\ \A pl \in PlacesOf(recommendations[i]) :
                    pl[1] = recommendations[i].priority
        /\ \A pr \in Priorities :
             \A k \in DOMAIN r_output.recommendations[pr] :
                r_output.recommendations[pr][k].priority = pr
        /\ r_output.high_priority = Len(r_output.recommendations.high)
        /\ r_output.medium_priority = Len(r_output.recommendations.medium)
        /\ r_output.low_priority = Len(r_output.recommendations.low)

\* A call that fills all three buckets, more than one entry in some.
C10_Witness ==
    /\ r_pc = "done"
    /\ r_output.high_priority >= 2
    /\ r_output.medium_priority >= 2
    /\ r_output.low_priority >= 2
    /\ r_output.total_recommendations
         = r_output.high_priority + r_output.medium_priority + r_output.low_priority

\* The place of a recommendation's rule in the evaluation order: network
\* (high latency, moderate latency, MTU), dns (slow, privacy), cdn (praise,
\* optimisation), protocol (TLS 1.3, HTTPS), ports (risky, vpn), ping.
RuleRank(rec) ==
    CASE rec.title = "High Network Latency" -> 1
      [] rec.title = "Moderate Network Latency" -> 2
      [] rec.title = "Low MTU Detected" -> 3
      [] rec.title = "Slow DNS Resolution" -> 4
      [] rec.category = "privacy" -> 5
      [] rec.title = "Optimal CDN Performance" -> 6
      [] rec.title = "CDN Optimization Possible" -> 7
      [] rec.title = "TLS 1.3 Not Available" -> 8
      [] rec.title = "Slow HTTPS Connections" -> 9
      [] rec.title = "Potentially Risky Ports Open" -> 10
      [] rec.category = "vpn" -> 11
      [] rec.category = "deployment" -> 12
      [] OTHER -> 0

\* The domain a rule belongs to.
DomainOfRank(rank) ==
    IF rank <= 3 THEN "network" ELSE IF rank <= 5 THEN "dns"
    ELSE IF rank <= 7 THEN "cdn" ELSE IF rank <= 9 THEN "protocol"
    ELSE IF rank <= 11 THEN "ports" ELSE "ping"

\* A list whose rules follow each other in the evaluation order.
InRuleOrder(recs) ==
    \A i, j \in DOMAIN recs : i < j => RuleRank(recs[i]) < RuleRank(recs[j])

\* What the rules of one domain give for its report alone.
AloneOf(domain) ==
    CASE domain = "network" ->
           IF Truthy(network_data) THEN analyze_network(network_data) ELSE <<>>
      [] domain = "dns" ->
           IF Truthy(dns_data) THEN analyze_dns(dns_data) ELSE <<>>
      [] domain = "cdn" ->
           IF Truthy(cdn_data) THEN analyze_cdn(cdn_data) ELSE <<>>
      [] domain = "protocol" ->
           IF Truthy(protocol_data) THEN analyze_protocol(protocol_data) ELSE <<>>
      [] domain = "ports" ->
           IF Truthy(port_data) THEN analyze_ports(port_data) ELSE <<>>
      [] OTHER ->
           IF Truthy(ping_data) THEN analyze_ping(ping_data) ELSE <<>>

Domains == {"network", "dns", "cdn", "protocol", "ports", "ping"}

\* C11: analyze evaluates the rules in the order network, dns, cdn,
\* protocol, ports, ping and in a fixed order inside each domain; what one
\* domain's rules contribute is what they give for that domain's report
\* alone, whatever fires elsewhere; inside each priority bucket the
\* recommendations keep the evaluation order.
C11_RuleOrderStable ==
    r_pc = "done" =>
        /\ InRuleOrder(recommendations)
        /\ \A d \in Domains :
             SelectSeq(recommendations,
                       LAMBDA r : DomainOfRank(RuleRank(r)) = d) = AloneOf(d)
        /\ \A pr \in Priorities : InRuleOrder(r_output.recommendations[pr])

\* Four domains put a rule into the high bucket and two rules of the network
\* domain fire together.
C11_Witness ==
    /\ r_pc = "done"
    /\ r_output.high_priority = 4
    /\ Len(AloneOf("network")) = 2
    /\ Len(AloneOf("dns")) = 2
    /\ Len(AloneOf("ports")) = 2
    /\ Len(AloneOf("ping")) = 1

\* The open ports of the ports report.
OpenPorts == Get(port_data, "open_ports", <<>>)

OnlyPortsSupplied ==
    /\ ~Truthy(network_data) /\ ~Truthy(dns_data) /\ ~Truthy(cdn_data)
    /\ ~Truthy(protocol_data) /\ ~Truthy(ping_data)
    /\ Truthy(port_data)

\* C13: from the ports report analyze emits one high security
\* recommendation exactly when one of the ports 21, 23, 3389 is open and one
\* low vpn recommendation exactly when an open port has the category vpn;
\* given only a ports report with no such port open, it emits nothing and
\* the summary is the "no recommendations" text.
C13_PortRules ==
    r_pc = "done" =>
        LET out == r_output.recommendations
            risky == \E k \in DOMAIN OpenPorts : OpenPorts[k].port \in {21, 23, 3389}
            vpn == \E k \in DOMAIN OpenPorts : OpenPorts[k].category = "vpn"
            risky_recs == SelectSeq(out.high,
                              LAMBDA r : r.title = "Potentially Risky Ports Open")
            vpn_recs == SelectSeq(out.low, LAMBDA r : r.category = "vpn")
        IN  /\ Len(risky_recs) = (IF risky THEN 1 ELSE 0)
            /\ \A k \in DOMAIN risky_recs : risky_recs[k].category = "security"
            /\ Len(vpn_recs) = (IF vpn THEN 1 ELSE 0)
            /\ \A pr \in {"high", "medium"} :
                  SelectSeq(out[pr], LAMBDA r : r.category = "vpn") = <<>>
            /\ (OnlyPortsSupplied /\ ~risky /\ ~vpn) =>
                  /\ r_output.total_recommendations = 0
                  /\ r_output.summary
                       = <<"No recommendations at this time. Consider running more tests.">>

\* Only a ports report is given; it has the ports 21 and 1194 open.
C13_Witness ==
    /\ r_pc = "done"
    /\ OnlyPortsSupplied
    /\ Len(OpenPorts) = 2
    /\ OpenPorts[1].port = 21
    /\ OpenPorts[2].port = 1194
    /\ r_output.total_recommendations = 2
    /\ r_output.high_priority = 1
    /\ r_output.low_priority = 1

\* The types of the components of an architecture, in order; no component
\* is built by a call that raised.
ComponentTypes ==
    IF architecture.raised THEN <<>>
    ELSE [k \in DOMAIN architecture.components |-> architecture.components[k].type]

ArchitectureTitles ==
    IF architecture.raised THEN {}
    ELSE {architecture.recommendations[k].title :
            k \in DOMAIN architecture.recommendations}

\* C14: whatever subset of the domain reports is supplied, analyze and
\* design return without raising and derive nothing from a domain that is
\* absent; the same holds for a report that is present but partial, such as
\* a DNS report whose best_server is null or a ping report whose
\* fastest_region is null.
C14_AbsentAndPartialReports ==
    /\ r_pc = "done" =>
          \A d \in Domains :
             (AloneOf(d) = <<>>) =>
                SelectSeq(recommendations,
                          LAMBDA r : DomainOfRank(RuleRank(r)) = d) = <<>>
    /\ a_pc # "raised"
    /\ a_pc = "done" =>
          /\ ~Truthy(dns_data) =>
                (\A k \in DOMAIN ComponentTypes : ComponentTypes[k] # "dns")
                /\ "Use DNS over HTTPS" \notin ArchitectureTitles
          /\ ~Truthy(ping_data) =>
                (\A k \in DOMAIN ComponentTypes : ComponentTypes[k] # "region")
          /\ ~Truthy(network_data) =>
                (\A k \in DOMAIN ComponentTypes : ComponentTypes[k] # "network")
                /\ "Consider CDN" \notin ArchitectureTitles

\* The report names a best resolver / a fastest region.
HasBest(data, key) ==
    Truthy(data) /\ key \in DOMAIN data /\ data[key] # PyNone

\* C18: design builds its components in the order dns, region, network: the
\* dns one exactly when the DNS report has a best resolver, the region one
\* exactly when the ping report has a fastest region, the network one
\* exactly when network data is present; the connections are the two entries
\* client -> DNS and client -> region when both components exist, and none
\* otherwise.
C18_ComponentsAndConnections ==
    a_pc # "call" =>
        /\ ComponentTypes
             = (IF HasBest(dns_data, "best_server") THEN <<"dns">> ELSE <<>>)
               \o (IF HasBest(ping_data, "fastest_region") THEN <<"region">> ELSE <<>>)
               \o (IF Truthy(network_data) THEN <<"network">> ELSE <<>>)
        /\ ~architecture.raised =>
             LET connections == architecture.connections
             IN  IF HasBest(dns_data, "best_server")
                      /\ HasBest(ping_data, "fastest_region")
                   THEN /\ Len(connections) = 2
                        /\ connections[1].from = "client"
                        /\ connections[1].to = architecture.components[1].name
                        /\ connections[2].from = "client"
                        /\ connections[2].to = architecture.components[2].name
                 ELSE connections = <<>>

\* C22: analyze and design are stateless and deterministic: whatever
\* earlier calls left in the shared instance, a call returns exactly what a
\* fresh instance returns for the same reports, and no recommendation of an
\* earlier call appears in the result.
C22_StatelessAndDeterministic ==
    /\ r_pc = "done" =>
          /\ r_output = analyze_output(collect(network_data, dns_data, cdn_data,
                                               protocol_data, port_data, ping_data))
          /\ \A d \in Domains :
                SelectSeq(recommendations,
                          LAMBDA r : DomainOfRank(RuleRank(r)) = d) = AloneOf(d)
    /\ a_pc # "call" =>
          architecture = design(network_data, dns_data, ping_data)

\* The engine held the TLS recommendation of an earlier call; this call is
\* given no report and returns nothing, and design has returned too.
C22_Witness ==
    /\ r_pc = "done"
    /\ a_pc = "done"
    /\ r_stale # <<>>
    /\ r_stale[1].title = "TLS 1.3 Not Available"
    /\ ~Truthy(protocol_data)
    /\ r_output.total_recommendations = 0
    /\ recommendations = <<>>

\* The open ports of the supplied scan report that COMMON_PORTS lists.
OpenCommon ==
    {k \in DOMAIN port_data.open_ports :
        port_data.open_ports[k].port \in DOMAIN COMMON_PORTS}

\* C30: every port of COMMON_PORTS found open is reported with the service
\* and category of COMMON_PORTS[p] (an open 443 or 8443 as 'web', not
\* 'vpn'), so a scan in which only ports of the common table are open never
\* triggers 'VPN Ports Available'.
C30_CommonPortsKeepTheirEntry ==
    (r_pc = "done" /\ port_data # PyNone) =>
        /\ \A k \in OpenCommon :
              /\ port_data.open_ports[k].service
                    = COMMON_PORTS[port_data.open_ports[k].port].service
              /\ port_data.open_ports[k].category
                    = COMMON_PORTS[port_data.open_ports[k].port].category
        /\ OpenCommon = DOMAIN port_data.open_ports =>
              \A k \in DOMAIN recommendations :
                 recommendations[k].title # "VPN Ports Available"

\* The recommendation titled so is in the engine's list.
Praised == \E k \in DOMAIN recommendations :
              /\ recommendations[k].title = "Optimal CDN Performance"
              /\ recommendations[k].priority = "low"

\* C29: given the report of CDNTester.benchmark, analyze emits the low
\* 'Optimal CDN Performance' praise only when the best CDN had at least one
\* successful sample (success_rate > 0); when every CDN probe failed, no
\* praise is emitted.
C29_PraiseNeedsASample ==
    (r_pc = "done" /\ cdn_data \in CdnBenchReports) =>
        /\ Praised => cdn_data.best_cdn.success_rate > 0
        /\ (\A c \in DOMAIN cdn_data.providers :
                cdn_data.providers[c].success_rate = 0) => ~Praised

(***************************************************************************)
(* NetworkScanner (network_scanner.py): measure_latency, full_scan,        *)
(* _calculate_score, _get_grade.  Latencies in 1/100 ms, throughputs in    *)
(* 1/100 Mbps.                                                             *)
(***************************************************************************)

RECURSIVE SumSeq(_)
SumSeq(xs) == IF xs = <<>> THEN 0 ELSE Head(xs) + SumSeq(Tail(xs))

RECURSIVE MinSeq(_)
MinSeq(xs) == IF Len(xs) = 1 THEN xs[1] ELSE Min2(Head(xs), MinSeq(Tail(xs)))

RECURSIVE MaxSeq(_)
MaxSeq(xs) == IF Len(xs) = 1 THEN xs[1] ELSE Max2(Head(xs), MaxSeq(Tail(xs)))

\* One sample of measure_latency that raised something other than a timeout:
\* nothing is appended for it.
Skipped == -1

\* [abs(valid[i] - valid[i - 1]) for i in range(1, len(valid))]
\* Mutant: each sample compared with the first one.
Diffs_to_first(valid) ==
    [i \in 1 .. (Len(valid) - 1) |->
        IF valid[i + 1] >= valid[1] THEN valid[i + 1] - valid[1]
        ELSE valid[1] - valid[i + 1]]

Diffs(valid) ==
    [i \in 1 .. (Len(valid) - 1) |->
        IF valid[i + 1] >= valid[i] THEN valid[i + 1] - valid[i]
        ELSE valid[i] - valid[i + 1]]

\* measure_latency(host, count): samples holds per attempt the connect time,
\* Inf for a timeout (appended as float("inf")) or Skipped.  The dicts it
\* can return (round(x, 2) of a tie can go either way).
measure_latency(samples, count) ==
    LET latencies == SelectSeq(samples, LAMBDA l : l # Skipped)
        valid_latencies == SelectSeq(latencies, LAMBDA l : l # Inf)
        n == Len(valid_latencies)
    IN  IF n = 0
          THEN {[min |-> 0, max |-> 0, avg |-> 0, jitter |-> 0,
                 packet_loss |-> 100 * Scale]}
        ELSE { [min |-> MinSeq(valid_latencies),
                max |-> MaxSeq(valid_latencies),
                avg |-> avg, jitter |-> jitter, packet_loss |-> loss] :
               avg \in RoundChoices(SumSeq(valid_latencies), n),
               jitter \in (IF n > 1
                             THEN RoundChoices(SumSeq(Diffs(valid_latencies)), n - 1)
                             ELSE {0}),
               loss \in RoundChoices((count - n) * 100 * Scale, count) }

\* The sub-scores of _calculate_score (lines 352-383).
latency_score(latency) ==
    IF latency <= 20 * Scale THEN 100
    ELSE IF latency <= 50 * Scale THEN 80
    ELSE IF latency <= 100 * Scale THEN 60
    ELSE IF latency <= 200 * Scale THEN 40
    ELSE 20

download_score(download) ==
    IF download >= 100 * Scale THEN 100
    ELSE IF download >= 50 * Scale THEN 80
    ELSE IF download >= 25 * Scale THEN 60
    ELSE IF download >= 10 * Scale THEN 40
    ELSE 20

upload_score(upload) ==
    IF upload >= 50 * Scale THEN 100
    ELSE IF upload >= 25 * Scale THEN 80
    ELSE IF upload >= 10 * Scale THEN 60
    ELSE IF upload >= 5 * Scale THEN 40
    ELSE 20

\* Mutant: the upload weight doubled.
network_calculate_score_upload_heavy(latency, download, upload) ==
    (4 * latency_score(latency) + 4 * download_score(download)
       + 4 * upload_score(upload)) \div 10

\* NetworkScanner._calculate_score:
\* int(latency_score * 0.4 + download_score * 0.4 + upload_score * 0.2).
\* (For the 125 triples of sub-scores the float sum truncates to the exact
\* value.)
network_calculate_score(latency, download, upload) ==
    (4 * latency_score(latency) + 4 * download_score(download)
       + 2 * upload_score(upload)) \div 10

\* NetworkScanner._get_grade
get_grade(score) ==
    IF score >= 90 THEN "A+"
    ELSE IF score >= 80 THEN "A"
    ELSE IF score >= 70 THEN "B"
    ELSE IF score >= 60 THEN "C"
    ELSE IF score >= 50 THEN "D"
    ELSE "F"

\* The smallest k with k >= n / d.  overall_latency is a mean that is not
\* rounded before it is scored; against the whole-number thresholds of
\* latency_score it compares as its value rounded up to the next 1/100.
CeilDiv(n, d) == (n + d - 1) \div d

\* LATENCY_ENDPOINTS, cut to its first two entries.
LATENCY_ENDPOINTS == <<"1.1.1.1", "8.8.8.8">>

\* count=5 in full_scan
latency_count == 5

\* Lines 321-346 of full_scan for the given per-endpoint results and
\* measurements: the dicts it can return.
full_scan_results(latency_results, download_speed, upload_speed, mtu) ==
    LET avg_latencies ==
            SelectSeq([i \in DOMAIN latency_results |-> latency_results[i].avg],
                      LAMBDA a : a > 0)
        total == SumSeq(avg_latencies)
        n == Len(avg_latencies)
        score == network_calculate_score(IF n > 0 THEN CeilDiv(total, n) ELSE 0,
                                         download_speed, upload_speed)
    IN  { [latency |-> latency,
           latency_details |-> latency_results,
           download_mbps |-> download_speed,
           upload_mbps |-> upload_speed,
           mtu |-> mtu,
           nat_type |-> "NAT (Private Network)",
           overall_score |-> score,
           grade |-> get_grade(score)] :
          latency \in (IF n > 0 THEN RoundChoices(total, n) ELSE {0}) }

(***************************************************************************)
(* Specification SpecNet: one full_scan, then analyze and design called    *)
(* with its report as network_data                                         *)
(***************************************************************************)

\* Five attempts all taking t (in ms).
Steady(t) == [i \in 1 .. latency_count |-> t * Scale]

\* What the five attempts at the first endpoint can meet: steady times on
\* and around the thresholds, a mixed run, timeouts only, errors only.
LatencyRuns ==
    {Steady(20), [i \in 1 .. latency_count |-> 20 * Scale + 1], Steady(50),
     Steady(100), Steady(150), Steady(200), Steady(250),
     <<120 * Scale, 130 * Scale, Inf, Skipped, 150 * Scale>>,
     [i \in 1 .. latency_count |-> Inf],
     [i \in 1 .. latency_count |-> Skipped]}

\* ... and at the second.
LatencyRuns2 ==
    {Steady(20), [i \in 1 .. latency_count |-> 20 * Scale + 1], Steady(100),
     [i \in 1 .. latency_count |-> Inf]}

DownloadSpeeds ==
    {0, 10 * Scale - 1, 10 * Scale, 25 * Scale, 50 * Scale, 100 * Scale}

UploadSpeeds ==
    {0, 5 * Scale - 1, 5 * Scale, 10 * Scale, 25 * Scale, 50 * Scale}

\* detect_mtu: the first size of its list that gets through.
Mtus == {1500, 1400, 1300}

\* A DNS report and a region report as the runners return them.
SomeDnsReport ==
    [best_server |-> [name |-> "Cloudflare", ip |-> "1.1.1.1",
                      avg_response_time |-> 60 * Scale],
     servers |-> <<[name |-> "Cloudflare", ip |-> "1.1.1.1", privacy |-> "high"]>>,
     total_tested |-> 1]

SomePingReport ==
    [fastest_region |-> [name |-> "US East (Virginia)", location |-> "Virginia",
                         provider |-> "AWS", avg_latency_ms |-> 20 * Scale],
     total_tested |-> 1]

NoNetReport == [latency |-> 0]

NetIdle ==
    /\ n_runs = <<>>
    /\ n_download = 0
    /\ n_upload = 0
    /\ n_mtu = 1500
    /\ n_overall = 0
    /\ n_report = NoNetReport
    /\ n_dns = PyNone
    /\ n_ping = PyNone
    /\ n_analysis = NoOutput
    /\ n_design = Raise("none")
    /\ n_pc = "idle"

NetInit ==
    /\ n_runs \in {<<a, b>> : a \in LatencyRuns, b \in LatencyRuns2}
    /\ n_download \in DownloadSpeeds
    /\ n_upload \in UploadSpeeds
    /\ n_mtu \in Mtus
    /\ n_overall = 0
    /\ n_report = NoNetReport
    /\ n_dns = PyNone
    /\ n_ping = PyNone
    /\ n_analysis = NoOutput
    /\ n_design = Raise("none")
    /\ n_pc = "scan"

\* overall_latency of lines 325-328, rounded up to the next 1/100.
overall_latency(latency_results) ==
    LET avg_latencies ==
            SelectSeq([i \in DOMAIN latency_results |-> latency_results[i].avg],
                      LAMBDA a : a > 0)
    IN  IF avg_latencies = <<>> THEN 0
        ELSE CeilDiv(SumSeq(avg_latencies), Len(avg_latencies))

\* NetworkScanner.full_scan
FullScan ==
    /\ n_pc = "scan"
    /\ \E latency_results \in
            {f \in [DOMAIN LATENCY_ENDPOINTS ->
                      UNION {measure_latency(n_runs[i], latency_count) :
                               i \in DOMAIN LATENCY_ENDPOINTS}] :
               \A i \in DOMAIN LATENCY_ENDPOINTS :
                  f[i] \in measure_latency(n_runs[i], latency_count)} :
         /\ n_report' \in full_scan_results(latency_results, n_download,
                                            n_upload, n_mtu)
         /\ n_overall' = overall_latency(latency_results)
    /\ n_pc' = "scanned"
    /\ UNCHANGED <<n_runs, n_download, n_upload, n_mtu, n_dns, n_ping,
                   n_analysis, n_design>>

\* recommendation_engine.analyze(network_data=report)
AnalyzeReport ==
    /\ n_pc = "scanned"
    /\ n_analysis' = analyze_output(collect(n_report, PyNone, PyNone, PyNone,
                                            PyNone, PyNone))
    /\ n_pc' = "analyzed"
    /\ UNCHANGED <<n_runs, n_download, n_upload, n_mtu, n_overall, n_report,
                   n_dns, n_ping, n_design>>

\* service_architect.design(network_data=report, dns_data=..., ping_data=...)
DesignFromReport ==
    /\ n_pc = "analyzed"
    /\ n_dns' \in {PyNone, SomeDnsReport}
    /\ n_ping' \in {PyNone, SomePingReport}
    /\ n_design' = design(n_report, n_dns', n_ping')
    /\ n_pc' = "designed"
    /\ UNCHANGED <<n_runs, n_download, n_upload, n_mtu, n_overall, n_report,
                   n_analysis>>

NetNext ==
    \/ FullScan /\ UNCHANGED <<sc_vars, b_vars, p_vars, ps_vars, r_vars, s_vars, j_vars>>
    \/ AnalyzeReport /\ UNCHANGED <<sc_vars, b_vars, p_vars, ps_vars, r_vars, s_vars, j_vars>>
    \/ DesignFromReport /\ UNCHANGED <<sc_vars, b_vars, p_vars, ps_vars, r_vars, s_vars, j_vars>>

(***************************************************************************)
(* Claims about SpecNet                                                    *)
(***************************************************************************)

\* The entries of a list of recommendation dicts that carry the given title.
Titled(dicts, title) == SelectSeq(dicts, LAMBDA r : r.title = title)

\* C12: given the network report that full_scan produced, analyze emits
\* exactly one high network recommendation when the measured latency is
\* above 100 ms, exactly one medium latency recommendation when it is above
\* 50 ms and at most 100 ms, none of the two at 50 ms or less, and,
\* independently, one medium recommendation when the MTU is below 1400.
C12_NetworkRulesFollowTheReport ==
    n_pc \in {"analyzed", "designed"} =>
        LET out == n_analysis.recommendations
            high_latency == Titled(out.high, "High Network Latency")
            moderate == Titled(out.medium, "Moderate Network Latency")
            low_mtu == Titled(out.medium, "Low MTU Detected")
        IN  /\ Len(high_latency)
                 = (IF n_report.latency > 100 * Scale THEN 1 ELSE 0)
            /\ Len(moderate)
                 = (IF n_report.latency > 50 * Scale
                       /\ n_report.latency <= 100 * Scale THEN 1 ELSE 0)
            /\ Len(low_mtu) = (IF n_report.mtu < 1400 THEN 1 ELSE 0)
            /\ n_analysis.total_recommendations
                 = Len(high_latency) + Len(moderate) + Len(low_mtu)

\* C19: the recommendations of the architecture always hold 'Use TLS 1.3'
\* and 'Enable HTTP/2'; they hold the DNS-over-HTTPS entry exactly when a
\* DNS report is given, 'Consider CDN' exactly when the network report that
\* full_scan produced shows a latency above 100 ms, and a 'Deploy to ...'
\* entry exactly when the ping report has a fastest region.
C19_ArchitectureRecommendations ==
    (n_pc = "designed" /\ ~n_design.raised) =>
        LET recs == n_design.recommendations
        IN  /\ Len(Titled(recs, "Use TLS 1.3")) = 1
            /\ Len(Titled(recs, "Enable HTTP/2")) = 1
            /\ (Titled(recs, "Use DNS over HTTPS") # <<>>) <=> Truthy(n_dns)
            /\ (Titled(recs, "Consider CDN") # <<>>)
                 <=> (n_report.latency > 100 * Scale)
            /\ (SelectSeq(recs, LAMBDA r : r.category = "deployment") # <<>>)
                 <=> (Truthy(n_ping) /\ "fastest_region" \in DOMAIN n_ping
                        /\ n_ping.fastest_region # PyNone)

SubScores == {20, 40, 60, 80, 100}

GradeRank(grade) ==
    CASE grade = "A+" -> 5
      [] grade = "A" -> 4
      [] grade = "B" -> 3
      [] grade = "C" -> 2
      [] grade = "D" -> 1
      [] grade = "F" -> 0

\* C20: the score of a scan is 0.4 x latency sub-score + 0.4 x download
\* sub-score + 0.2 x upload sub-score, each sub-score one of 20, 40, 60, 80,
\* 100 (latency at most 20 / 50 / 100 / 200 ms, download at least 100 / 50 /
\* 25 / 10 Mbps, upload at least 50 / 25 / 10 / 5 Mbps), so that it lies in
\* 20..100; the grade is A+ from 90, A from 80, B from 70, C from 60, D from
\* 50 and F below, and never falls when the score rises.
C20_ScoreAndGrade ==
    n_pc \in {"scanned", "analyzed", "designed"} =>
        LET l == latency_score(n_overall)
            d == download_score(n_download)
            u == upload_score(n_upload)
            score == n_report.overall_score
        IN  /\ l \in SubScores /\ d \in SubScores /\ u \in SubScores
            /\ (l >= 100 <=> n_overall <= 20 * Scale)
            /\ (l >= 80 <=> n_overall <= 50 * Scale)
            /\ (l >= 60 <=> n_overall <= 100 * Scale)
            /\ (l >= 40 <=> n_overall <= 200 * Scale)
            /\ (d >= 100 <=> n_download >= 100 * Scale)
            /\ (d >= 80 <=> n_download >= 50 * Scale)
            /\ (d >= 60 <=> n_download >= 25 * Scale)
            /\ (d >= 40 <=> n_download >= 10 * Scale)
            /\ (u >= 100 <=> n_upload >= 50 * Scale)
            /\ (u >= 80 <=> n_upload >= 25 * Scale)
            /\ (u >= 60 <=> n_upload >= 10 * Scale)
            /\ (u >= 40 <=> n_upload >= 5 * Scale)
            /\ 10 * score = 4 * l + 4 * d + 2 * u
            /\ score \in 20 .. 100
            /\ n_report.grade
                 = (IF score >= 90 THEN "A+"
                    ELSE IF score >= 80 THEN "A"
                    ELSE IF score >= 70 THEN "B"
                    ELSE IF score >= 60 THEN "C"
                    ELSE IF score >= 50 THEN "D"
                    ELSE "F")
            /\ \A lower \in 0 .. score :
                  GradeRank(get_grade(lower)) <= GradeRank(n_report.grade)

\* A scan at 75 ms, 50 Mbps down and 25 Mbps up: 24 + 32 + 16 = 72, a B.
C20_Witness ==
    /\ n_pc = "scanned"
    /\ n_overall > 50 * Scale /\ n_overall <= 100 * Scale
    /\ n_download = 50 * Scale
    /\ n_upload = 25 * Scale
    /\ n_report.overall_score = 72
    /\ n_report.grade = "B"

\* No connection attempt of the scan, at any endpoint, gave a sample.
NoLatencySample ==
    \A i \in DOMAIN n_runs : \A k \in DOMAIN n_runs[i] : n_runs[i][k] \in {Inf, Skipped}

\* Overall latencies that scans measure: 20 to 250 ms.
MeasuredLatencies == {t * Scale : t \in {20, 50, 100, 150, 200, 250}}

\* C28: a scan without any successful latency sample (overall latency 0) is
\* never scored higher than a scan with the same download and upload speeds
\* and a measured latency L > 0.
C28_NoLatencyNotBetter ==
    (n_pc \in {"scanned", "analyzed", "designed"} /\ NoLatencySample) =>
        \A L \in MeasuredLatencies :
           n_report.overall_score
              <= network_calculate_score(L, n_download, n_upload)

(***************************************************************************)
(* Specification SpecScan: the scan orchestrator (main.py lines 118-129,   *)
(* 192-264).  The handlers run on one event loop: a handler without an     *)
(* await is one step; execute_full_scan is a background task that starts   *)
(* after the response of its request was sent and yields at the await of   *)
(* each module.                                                            *)
(***************************************************************************)

\* POST requests made during one run.
MaxRequests == 2

Requests == 1 .. MaxRequests

\* d[k] = v on a dict.
Put(d, k, v) == [x \in DOMAIN d \cup {k} |-> IF x = k THEN v ELSE d[x]]

\* ScanRequest bodies: a full scan, the defaults, and two module lists.
ScanRequests ==
    {[full_scan |-> TRUE, modules |-> <<"network", "dns", "ping">>],
     [full_scan |-> FALSE, modules |-> <<"network", "dns", "ping">>],
     [full_scan |-> FALSE, modules |-> <<"dns", "global_ping">>],
     [full_scan |-> FALSE, modules |-> <<"cdn", "ports", "network">>]}

\* Lines 226-230.
modules_to_run(request) ==
    IF ~request.full_scan THEN request.modules
    ELSE <<"network", "dns", "cdn", "protocol", "ports", "global_ping">>

\* network_scanner.full_scan() at 150 ms on every endpoint.
ScanNetworkReports ==
    UNION {full_scan_results(<<m1, m2>>, 50 * Scale, 25 * Scale, 1500) :
             m1 \in measure_latency(Steady(150), latency_count),
             m2 \in measure_latency(Steady(150), latency_count)}

\* dns_analyzer.benchmark_all(), cdn_tester.test_all() and
\* global_ping.test_all_regions(): reports of the shape the runners return.
ScanDnsReports ==
    {SomeDnsReport,
     [best_server |-> [name |-> "Google", ip |-> "8.8.8.8",
                       avg_response_time |-> 30 * Scale],
      servers |-> <<[name |-> "Google", ip |-> "8.8.8.8", privacy |-> "medium"]>>,
      total_tested |-> 1]}

ScanCdnReports ==
    {[best_cdn |-> [name |-> "Cloudflare", avg_response_time |-> 40 * Scale],
      total_tested |-> 1]}

ScanPingReports == {SomePingReport}

\* What the await of one module gives: the reports it can return, or the
\* exception it raises.  ProtocolBenchmark has no method benchmark_all and
\* PortScanner no method scan_common_ports, so the attribute lookup of
\* lines 244 and 246 raises AttributeError.
module_outcomes(module) ==
    CASE module = "network" ->
           {[raised |-> FALSE, key |-> "network", report |-> rp] :
              rp \in ScanNetworkReports}
      [] module = "dns" ->
           {[raised |-> FALSE, key |-> "dns", report |-> rp] :
              rp \in ScanDnsReports}
      [] module = "cdn" ->
           {[raised |-> FALSE, key |-> "cdn", report |-> rp] :
              rp \in ScanCdnReports}
      [] module = "protocol" ->
           {[raised |-> TRUE,
             text |-> "'ProtocolBenchmark' object has no attribute 'benchmark_all'"]}
      [] module = "ports" ->
           {[raised |-> TRUE,
             text |-> "'PortScanner' object has no attribute 'scan_common_ports'"]}
      [] module = "global_ping" ->
           {[raised |-> FALSE, key |-> "global_ping", report |-> rp] :
              rp \in ScanPingReports}
      [] OTHER -> {[raised |-> FALSE, key |-> "", report |-> PyNone]}

NoResponse == [status |-> 0]

NoTask == [pc |-> "none", modules_to_run |-> <<>>, i |-> 0, results |-> EmptyDict]

IdleStatus == [running |-> FALSE, progress |-> 0, current_module |-> NoneVal]

CompleteStatus ==
    [running |-> FALSE, progress |-> 100, current_module |-> "complete"]

ScanIdle ==
    /\ scan_status = IdleStatus
    /\ main_scan_results = EmptyDict
    /\ requests = <<>>
    /\ responses = <<>>
    /\ tasks = <<>>
    /\ arrived_during = <<>>
    /\ last_finished = 0
    /\ got_results = PyNone
    /\ got_after = 0

ScanInit ==
    /\ scan_status = IdleStatus
    /\ main_scan_results = EmptyDict
    /\ requests \in [Requests -> ScanRequests]
    /\ responses = [req \in Requests |-> NoResponse]
    /\ tasks = [req \in Requests |-> NoTask]
    /\ arrived_during = [req \in Requests |-> FALSE]
    /\ last_finished = 0
    /\ got_results = PyNone
    /\ got_after = 0

\* run_network_scan (lines 192-203).  add_task only queues the task.
RunNetworkScan(req) ==
    /\ responses[req] = NoResponse
    /\ arrived_during' =
         [arrived_during EXCEPT ![req] =
            \E other \in Requests : tasks[other].pc \in {"queued", "loop"}]
    /\ IF scan_status.running
         THEN /\ responses' = [responses EXCEPT ![req] =
                    [status |-> 409, detail |-> "Scan already in progress"]]
              /\ UNCHANGED tasks
         ELSE /\ responses' = [responses EXCEPT ![req] =
                    [status |-> 200, success |-> TRUE, message |-> "Scan started",
                     status_url |-> "/api/scan/status"]]
              /\ tasks' = [tasks EXCEPT ![req].pc = "queued"]
    /\ UNCHANGED <<scan_status, main_scan_results, requests, last_finished,
                   got_results, got_after, recommendations>>

\* execute_full_scan, lines 222-231: up to the first pass of the loop.
StartScan(req) ==
    /\ tasks[req].pc = "queued"
    /\ scan_status' = [running |-> TRUE, progress |-> 0,
                       current_module |-> "initializing"]
    /\ tasks' = [tasks EXCEPT ![req] =
                   [pc |-> "loop", modules_to_run |-> modules_to_run(requests[req]),
                    i |-> 0, results |-> [modules |-> EmptyDict]]]
    /\ UNCHANGED <<main_scan_results, requests, responses, arrived_during,
                   last_finished, got_results, got_after, recommendations>>

\* One pass of the loop of lines 233-248; when the module raises, the except
\* and finally clauses of lines 260-264.
RunModule(req) ==
    /\ tasks[req].pc = "loop"
    /\ tasks[req].i < Len(tasks[req].modules_to_run)
    /\ LET task == tasks[req]
           total_modules == Len(task.modules_to_run)
           module == task.modules_to_run[task.i + 1]
       IN  \E outcome \in module_outcomes(module) :
              IF outcome.raised
                THEN /\ tasks' = [tasks EXCEPT ![req] =
                           [task EXCEPT !.pc = "done",
                                        !.results = Put(task.results, "error",
                                                        outcome.text)]]
                     /\ scan_status' = CompleteStatus
                     /\ last_finished' = req
                ELSE /\ tasks' = [tasks EXCEPT ![req] =
                           [task EXCEPT !.i = task.i + 1,
                                        !.results =
                                           IF outcome.key = "" THEN task.results
                                           ELSE [task.results EXCEPT !.modules =
                                                   Put(task.results.modules,
                                                       outcome.key, outcome.report)]]]
                     /\ scan_status' =
                          [scan_status EXCEPT
                             !.current_module = module,
                             !.progress = (task.i * 100) \div total_modules]
                     /\ UNCHANGED last_finished
    /\ UNCHANGED <<main_scan_results, requests, responses, arrived_during,
                   got_results, got_after, recommendations>>

\* Lines 250-258 and the finally clause: the engine and the architect are
\* called with the modules map as their first positional argument,
\* network_data, and the results are published.
FinishScan(req) ==
    /\ tasks[req].pc = "loop"
    /\ tasks[req].i = Len(tasks[req].modules_to_run)
    /\ LET task == tasks[req]
           modules == task.results.modules
           recs == fresh_list(recommendations)
                   \o collect(modules, PyNone, PyNone, PyNone, PyNone, PyNone)
           arch == design(modules, PyNone, PyNone)
       IN  /\ recommendations' = recs
           /\ IF arch.raised
                THEN /\ tasks' = [tasks EXCEPT ![req] =
                           [task EXCEPT !.pc = "done",
                                        !.results =
                                           Put(Put(task.results, "recommendations",
                                                   analyze_output(recs)),
                                               "error", StrOf(arch.exc))]]
                     /\ UNCHANGED main_scan_results
                ELSE LET final == Put(Put(task.results, "recommendations",
                                          analyze_output(recs)),
                                      "architecture", arch)
                     IN  /\ tasks' = [tasks EXCEPT ![req] =
                                 [task EXCEPT !.pc = "done", !.results = final]]
                         /\ main_scan_results' = final
    /\ scan_status' = CompleteStatus
    /\ last_finished' = req
    /\ UNCHANGED <<requests, responses, arrived_during, got_results, got_after>>

\* get_scan_results (lines 212-215)
GetScanResults ==
    /\ got_results' = [success |-> TRUE, data |-> main_scan_results]
    /\ got_after' = last_finished
    /\ UNCHANGED <<scan_status, main_scan_results, requests, responses, tasks,
                   arrived_during, last_finished, recommendations>>

\* Everything of the engine but its list.
r_rest == <<network_data, dns_data, cdn_data, protocol_data, port_data,
            ping_data, r_stale, r_output, r_pc, architecture, a_pc>>

ScanNext ==
    \/ \E req \in Requests :
          RunNetworkScan(req) /\ UNCHANGED <<sc_vars, b_vars, p_vars, ps_vars, n_vars, r_rest, j_vars>>
    \/ \E req \in Requests :
          StartScan(req) /\ UNCHANGED <<sc_vars, b_vars, p_vars, ps_vars, n_vars, r_rest, j_vars>>
    \/ \E req \in Requests :
          RunModule(req) /\ UNCHANGED <<sc_vars, b_vars, p_vars, ps_vars, n_vars, r_rest, j_vars>>
    \/ \E req \in Requests :
          FinishScan(req) /\ UNCHANGED <<sc_vars, b_vars, p_vars, ps_vars, n_vars, r_rest, j_vars>>
    \/ GetScanResults /\ UNCHANGED <<sc_vars, b_vars, p_vars, ps_vars, n_vars, r_rest, j_vars>>

(***************************************************************************)
(* Claims about SpecScan                                                   *)
(***************************************************************************)

\* The tasks inside execute_full_scan.
ScansInFlight == {req \in Requests : tasks[req].pc = "loop"}

\* C15: whatever the interleaving of POST /api/network/scan requests, at
\* most one execute_full_scan is in flight at any time: a request that
\* arrives after another request was accepted and before that scan has
\* finished is rejected with 409 "Scan already in progress" and starts no
\* scan.
C15_OneScanAtATime ==
    /\ Cardinality(ScansInFlight) <= 1
    /\ \A req \in Requests :
          arrived_during[req] =>
             /\ responses[req].status = 409
             /\ responses[req].detail = "Scan already in progress"
             /\ tasks[req].pc = "none"

\* C16: when a module raises during execute_full_scan, the remaining
\* modules are skipped and the scan still yields, through the published
\* scan results, the reports of the modules that completed before the
\* failure, tagged with an error field.
C16_PartialResultsPublished ==
    (got_results # PyNone /\ got_after # 0
       /\ "error" \in DOMAIN tasks[got_after].results) =>
        LET task == tasks[got_after]
            data == got_results.data
        IN  /\ task.i < Len(task.modules_to_run)
            /\ DOMAIN task.results.modules
                 \subseteq {task.modules_to_run[k] : k \in 1 .. task.i}
            /\ "error" \in DOMAIN data
            /\ "modules" \in DOMAIN data
            /\ data.modules = task.results.modules

\* The entries of a list of dicts with the given value under the given key.
WithKey(dicts, key, value) == SelectSeq(dicts, LAMBDA r : r[key] = value)

\* C17: at the end of a scan the orchestrator feeds the per-domain results
\* map to the recommendation engine and the architecture synthesizer so that
\* each domain's report is evaluated by that domain's rules: a completed
\* scan whose DNS report has a best server with avg_response_time above
\* 50 ms yields a high-priority dns recommendation and a dns component for
\* that server, and a scan whose region-ping report has a fastest region
\* yields the deployment recommendation and a region component.
C17_EachDomainReachesItsRules ==
    \A req \in Requests :
       (tasks[req].pc = "done" /\ "error" \notin DOMAIN tasks[req].results) =>
          LET modules == tasks[req].results.modules
              recs == tasks[req].results.recommendations.recommendations
              components == tasks[req].results.architecture.components
          IN  /\ ("dns" \in DOMAIN modules
                    /\ modules.dns.best_server.avg_response_time > 50 * Scale) =>
                   /\ WithKey(recs.high, "category", "dns") # <<>>
                   /\ \E k \in DOMAIN components :
                         /\ components[k].type = "dns"
                         /\ components[k].name = modules.dns.best_server.name
              /\ "global_ping" \in DOMAIN modules =>
                   /\ WithKey(recs.medium, "category", "deployment") # <<>>
                   /\ \E k \in DOMAIN components :
                         /\ components[k].type = "region"
                         /\ components[k].name
                              = modules.global_ping.fastest_region.name

\* A background task that was started runs on: the event loop resumes it at
\* each await, and every module call returns or raises.
ScanFairness ==
    \A req \in Requests :
       WF_vars((StartScan(req) \/ RunModule(req) \/ FinishScan(req))
                 /\ UNCHANGED <<sc_vars, b_vars, p_vars, ps_vars, n_vars, r_rest, j_vars>>)

\* C27: every execute_full_scan that starts eventually leaves scan_status at
\* running = false, progress = 100, current_module = "complete", whether it
\* ends normally or a module raises; and while a scan is running,
\* scan_status.running is true and progress stays in 0..100 and never
\* decreases.
C27_StatusLifecycle ==
    /\ \A req \in Requests :
          (tasks[req].pc = "loop")
             ~> (tasks[req].pc = "done" /\ last_finished = req
                   /\ scan_status = CompleteStatus)
    /\ [](ScansInFlight # {} =>
             /\ scan_status.running
             /\ scan_status.progress \in 0 .. 100)
    /\ [][ScansInFlight # {} => scan_status'.progress >= scan_status.progress]_vars

(***************************************************************************)
(* Specification SpecJitter: the same run of connection attempts measured  *)
(* by NetworkScanner.measure_latency (network_scanner.py lines 169-216)    *)
(* and by GlobalPingTester.test_region (global_ping.py lines 185-230)      *)
(***************************************************************************)

\* The most connection attempts of one run.
MaxAttempts == 4

\* Connect times a successful attempt measures: 10, 30 and 60 ms.
JitterTimes == {10 * Scale, 30 * Scale, 60 * Scale}

\* What one attempt can meet.
AttemptOutcomes == JitterTimes \cup {Inf, Skipped}

NotCalled == [called |-> FALSE]

JitterIdle ==
    /\ j_samples = <<>>
    /\ j_latency = NotCalled
    /\ j_region = NotCalled
    /\ j_pc = "idle"

JitterInit ==
    /\ j_samples \in UNION {[1 .. n -> AttemptOutcomes] : n \in 1 .. MaxAttempts}
    /\ j_latency = NotCalled
    /\ j_region = NotCalled
    /\ j_pc = "run"

\* What ping_host returns for an attempt of the run: the connect time, the
\* timeout of wait_for, or a refused connection.
ping_of(sample) ==
    IF sample = Inf THEN ping_host(Ev("asyncio.TimeoutError", 0, 0, <<>>))
    ELSE IF sample = Skipped THEN ping_host(Ev("ConnectionRefusedError", 0, 0, <<>>))
    ELSE ping_host(Ev("none", sample, 0, <<>>))

\* test_region over the attempts of a run, in their order.
test_region(name, samples) ==
    LET r == [i \in 1 .. Len(samples) |-> ping_of(samples[i])]
    IN  region_results(name, run_samples("ping", r, Len(samples)), Len(samples))

\* measure_latency(host, count=len(samples))
MeasureLatency ==
    /\ j_pc = "run"
    /\ j_latency = NotCalled
    /\ j_latency' \in measure_latency(j_samples, Len(j_samples))
    /\ UNCHANGED <<j_samples, j_region, j_pc>>

\* test_region(region_key) meeting the same attempts
TestRegionOnRun ==
    /\ j_pc = "run"
    /\ j_region = NotCalled
    /\ j_region' \in test_region(GLOBAL_ENDPOINTS[1], j_samples)
    /\ UNCHANGED <<j_samples, j_latency, j_pc>>

JitterNext ==
    \/ MeasureLatency /\ UNCHANGED <<sc_vars, b_vars, p_vars, ps_vars, r_vars, n_vars, s_vars>>
    \/ TestRegionOnRun /\ UNCHANGED <<sc_vars, b_vars, p_vars, ps_vars, r_vars, n_vars, s_vars>>

(***************************************************************************)
(* Claims about SpecJitter                                                 *)
(***************************************************************************)

\* The successful samples of a run, in temporal order.
Successful(samples) == SelectSeq(samples, LAMBDA l : l # Skipped /\ l # Inf)

\* The sum of |x[i+1] - x[i]| over the consecutive pairs of xs.
RECURSIVE AdjacentSum(_)
AdjacentSum(xs) ==
    IF Len(xs) < 2 THEN 0
    ELSE Abs(xs[2] - xs[1]) + AdjacentSum(Tail(xs))

\* The largest minus the smallest element of a non-empty list.
Spread(xs) ==
    LET elems == {xs[i] : i \in DOMAIN xs}
    IN  (CHOOSE hi \in elems : \A x \in elems : x <= hi)
          - (CHOOSE lo \in elems : \A x \in elems : lo <= x)

\* The run with attempts i and i + 1 exchanged.
Swapped(samples, i) ==
    [k \in DOMAIN samples |->
        IF k = i THEN samples[i + 1]
        ELSE IF k = i + 1 THEN samples[i]
        ELSE samples[k]]

\* The jitter values each formula can return for a run.
LatencyJitters(samples) == {m.jitter : m \in measure_latency(samples, Len(samples))}
RegionJitters(samples) == {m.jitter_ms : m \in test_region(GLOBAL_ENDPOINTS[1], samples)}

\* C25: measure_latency reports as jitter the mean of the absolute
\* differences between consecutive successful samples in temporal order
\* (timed-out and failed attempts removed first), and 0 with fewer than two
\* successful samples; test_region reports max - min of the successful
\* samples, which no exchange of two neighbouring attempts (hence no
\* reordering) changes.
C25_TwoJitterFormulas ==
    LET ok == Successful(j_samples)
        n == Len(ok)
    IN  /\ j_latency # NotCalled =>
              j_latency.jitter \in (IF n < 2 THEN {0}
                                    ELSE RoundChoices(AdjacentSum(ok), n - 1))
        /\ j_region # NotCalled =>
              /\ j_region.jitter_ms = (IF n = 0 THEN 0 ELSE Spread(ok))
              /\ \A i \in 1 .. (Len(j_samples) - 1) :
                    RegionJitters(Swapped(j_samples, i)) = {j_region.jitter_ms}

\* Both formulas have measured a run with a failed attempt among three or
\* more successful samples, they disagree, and exchanging two neighbouring
\* attempts changes the jitter of measure_latency.
C25_Witness ==
    /\ j_latency # NotCalled
    /\ j_region # NotCalled
    /\ Len(Successful(j_samples)) >= 3
    /\ Len(Successful(j_samples)) < Len(j_samples)
    /\ j_latency.jitter # j_region.jitter_ms
    /\ \E i \in 1 .. (Len(j_samples) - 1) :
          j_latency.jitter \notin LatencyJitters(Swapped(j_samples, i))

(***************************************************************************)
(* The specifications: each runs one part and leaves the others idle       *)
(***************************************************************************)

InitScore ==
    ScoreInit /\ BenchIdle /\ ProbeIdle /\ PortsIdle /\ RecIdle /\ NetIdle /\ ScanIdle /\ JitterIdle

SpecScore == InitScore /\ [][ScoreNext]_vars

InitBench ==
    BenchInit /\ ScoreIdle /\ ProbeIdle /\ PortsIdle /\ RecIdle /\ NetIdle /\ ScanIdle /\ JitterIdle

SpecBench == InitBench /\ [][BenchNext]_vars

InitProbe ==
    ProbeInit /\ ScoreIdle /\ BenchIdle /\ PortsIdle /\ RecIdle /\ NetIdle /\ ScanIdle /\ JitterIdle

SpecProbe == InitProbe /\ [][ProbeNext]_vars

InitPorts ==
    PortsInit /\ ScoreIdle /\ BenchIdle /\ ProbeIdle /\ RecIdle /\ NetIdle /\ ScanIdle /\ JitterIdle

SpecPorts == InitPorts /\ [][PortsNext]_vars

SpecPortsFair == InitPorts /\ [][PortsNext]_vars /\ PortsFairness

InitRec ==
    RecInit /\ ScoreIdle /\ BenchIdle /\ ProbeIdle /\ PortsIdle /\ NetIdle /\ ScanIdle /\ JitterIdle

SpecRec == InitRec /\ [][RecNext]_vars

InitNet ==
    NetInit /\ ScoreIdle /\ BenchIdle /\ ProbeIdle /\ PortsIdle /\ RecIdle /\ ScanIdle /\ JitterIdle

SpecNet == InitNet /\ [][NetNext]_vars

InitScan ==
    ScanInit /\ ScoreIdle /\ BenchIdle /\ ProbeIdle /\ PortsIdle /\ RecIdle /\ NetIdle /\ JitterIdle

SpecScan == InitScan /\ [][ScanNext]_vars

SpecScanFair == InitScan /\ [][ScanNext]_vars /\ ScanFairness

InitJitter ==
    JitterInit /\ ScoreIdle /\ BenchIdle /\ ProbeIdle /\ PortsIdle /\ RecIdle /\ NetIdle /\ ScanIdle

SpecJitter == InitJitter /\ [][JitterNext]_vars

====
